---- MODULE Spec2Model ----
(***************************************************************************)
(* Cattown: markdown tokenizer (src/src/tokenizer.js, the tokenizeUserInput *)
(* defined at lines 538-826), token renderer (src/unnamed/part_001) and the *)
(* conversion API (src/src/cattownMain.js), as a state machine.             *)
(*                                                                         *)
(* A JavaScript string is a sequence of one-character strings.  Indices in *)
(* the operators below are 0-based like the source's; position p of a      *)
(* string s is s[p + 1].  "\n" is the line feed, "\r" the carriage return  *)
(* (a line terminator that split("\n") leaves inside a line).               *)
(***************************************************************************)
EXTENDS Integers, Sequences, FiniteSets, TLC

VARIABLES
  config,      \* cattownConfig.js: the settings object
  DOMPurify,   \* cattownMain.js: the installed sanitizer instance
  given,       \* the argument of the latest setDOMPurify call (history)
  pc,          \* "ready" before the first call, "done" after a call
  call,        \* the last operation called, with its arguments
  result,      \* what that call produced
  element,     \* the child nodes of the DOM element the caller hands in
  calls        \* how many calls have written to that element

vars == <<config, DOMPurify, given, pc, call, result, element, calls>>

-----------------------------------------------------------------------------
(* Bounds of the model.                                                    *)

\* longest block-level input enumerated exhaustively
MaxInputLen == 4
\* longest inline text enumerated exhaustively
MaxInlineLen == 5
\* longest string inside a token handed to the renderer
MaxTextLen == 2
\* call-stack frames the engine allows before it throws RangeError
StackLimit == 24
\* calls that write to the DOM element in one behaviour
MaxCalls == 2

-----------------------------------------------------------------------------
(* String primitives of the JavaScript runtime.                            *)

Max(a, b) == IF a >= b THEN a ELSE b

\* U+0060, the inline code delimiter (the module's lexer admits no grave accent
\* inside a string literal, so the character is written by name)
Backtick == "GRAVE"

\* String.prototype.slice(a, b) for 0 <= a, b (b clamped to the length)
Slice(s, a, b) ==
  LET e == IF b > Len(s) THEN Len(s) ELSE b
  IN IF a >= e THEN <<>> ELSE SubSeq(s, a + 1, e)

\* String.prototype.slice(a)
SliceFrom(s, a) == Slice(s, a, Len(s))

\* whether marker m occurs in s at position p
OccursAt(s, m, p) ==
  /\ p + Len(m) <= Len(s)
  /\ \A k \in 1..Len(m) : s[p + k] = m[k]

\* String.prototype.indexOf(m, from): the first position >= from, or -1
IndexOf(s, m, from) ==
  LET hits == {p \in from..(Len(s) - Len(m)) : OccursAt(s, m, p)}
  IN IF hits = {} THEN -1 ELSE CHOOSE p \in hits : \A q \in hits : p <= q

\* the characters \s matches and trim() strips
SpaceChars == {" ", "\t", "\n", "\r"}

\* the characters . does not match
LineTerminators == {"\n", "\r"}

\* the characters \d matches
DigitChars == {"0", "1", "2", "3", "4", "5", "6", "7", "8", "9"}

\* String.prototype.trim()
Trim(s) ==
  LET keep == {p \in 1..Len(s) : s[p] \notin SpaceChars}
  IN IF keep = {} THEN <<>>
     ELSE LET lo == CHOOSE p \in keep : \A q \in keep : p <= q
              hi == CHOOSE p \in keep : \A q \in keep : p >= q
          IN SubSeq(s, lo, hi)

\* where a greedy run of characters of class C that starts at position p ends
RunEnd(s, p, C) ==
  LET stops == {q \in p..Len(s) : q = Len(s) \/ s[q + 1] \notin C}
  IN CHOOSE q \in stops : \A r \in stops : q <= r

\* whether s holds a character of class C at or after position p
HasFrom(s, p, C) == \E q \in (p + 1)..Len(s) : s[q] \in C

\* String.prototype.split("\n")
RECURSIVE SplitLines(_)
SplitLines(s) ==
  LET nl == IndexOf(s, <<"\n">>, 0)
  IN IF nl = -1 THEN <<s>>
     ELSE <<Slice(s, 0, nl)>> \o SplitLines(SliceFrom(s, nl + 1))

\* Array.prototype.join("\n") over strings
RECURSIVE JoinLines(_)
JoinLines(ls) ==
  IF Len(ls) = 0 THEN <<>>
  ELSE IF Len(ls) = 1 THEN ls[1]
  ELSE ls[1] \o <<"\n">> \o JoinLines(Tail(ls))

-----------------------------------------------------------------------------
(* tokenizeInline: the inline lexer.                                       *)

NoMatch == [type |-> "none"]

\* The groups of "[text](target)" whose "[" is at position b of a match that
\* starts at position i: j is the first "]" after the "[", k the first ")"
\* from j + 2 on; the text holds at least minText characters ("*" or "+").
BracketGroups(type, s, i, b, j, k, minText) ==
  IF j < b + 1 + minText \/ ~OccursAt(s, <<"(">>, j + 1) \/ k < j + 3 THEN NoMatch
  ELSE [type |-> type, index |-> i, m1 |-> Slice(s, b + 1, j),
        m2 |-> Slice(s, j + 2, k), len |-> k + 1 - i]

\* /!\[([^\]]*)\]\(([^)]+)\)/ anchored at position i
ImageAt(s, i) ==
  IF ~OccursAt(s, <<"!", "[">>, i) THEN NoMatch
  ELSE BracketGroups("image", s, i, i + 1, IndexOf(s, <<"]">>, i + 2),
                     IndexOf(s, <<")">>, IndexOf(s, <<"]">>, i + 2) + 2), 0)

\* /\[([^\]]+)\]\(([^)]+)\)/ anchored at position i
LinkAt(s, i) ==
  IF ~OccursAt(s, <<"[">>, i) THEN NoMatch
  ELSE BracketGroups("link", s, i, i, IndexOf(s, <<"]">>, i + 1),
                     IndexOf(s, <<")">>, IndexOf(s, <<"]">>, i + 1) + 2), 1)

\* the groups of an inline code match from position i to the backtick at j
CodeGroups(s, i, j) ==
  IF j < i + 2 THEN NoMatch
  ELSE [type |-> "code", index |-> i, m1 |-> Slice(s, i + 1, j),
        m2 |-> <<>>, len |-> j + 1 - i]

\* the inline code pattern (backtick, one or more non-backticks, backtick)
\* anchored at position i
CodeAt(s, i) ==
  IF ~OccursAt(s, <<Backtick>>, i) THEN NoMatch
  ELSE CodeGroups(s, i, IndexOf(s, <<Backtick>>, i + 1))

\* the anchored matcher of an atomic pattern
AtomicAt(type, s, i) ==
  CASE type = "image" -> ImageAt(s, i)
    [] type = "link" -> LinkAt(s, i)
    [] type = "code" -> CodeAt(s, i)

\* the match at the leftmost of the positions at which the pattern matches
LeftmostOf(type, s, at) ==
  IF at = {} THEN NoMatch
  ELSE AtomicAt(type, s, CHOOSE i \in at : \A q \in at : i <= q)

\* regex.lastIndex = 0; regex.exec(str): the leftmost match of the pattern
RegexExec(type, s) ==
  LeftmostOf(type, s, {i \in 0..(Len(s) - 1) : AtomicAt(type, s, i) # NoMatch})

\* atomicPatterns, in the order the source lists them
atomicPatterns == <<"image", "link", "code">>

\* the test of the findEarliestMatch loop: a later pattern replaces the
\* earliest only with a strictly smaller index
EarlierAtomic(match, earliest) ==
  IF match # NoMatch /\ (earliest = NoMatch \/ match.index < earliest.index)
  THEN match ELSE earliest

\* findEarliestMatch: one loop iteration per pattern
RECURSIVE FindEarliestMatchFrom(_, _, _)
FindEarliestMatchFrom(n, str, earliest) ==
  IF n > Len(atomicPatterns) THEN earliest
  ELSE FindEarliestMatchFrom(n + 1, str,
         EarlierAtomic(RegexExec(atomicPatterns[n], str), earliest))

FindEarliestMatch(str) == FindEarliestMatchFrom(1, str, NoMatch)

\* styledMarkers, flattened in the order the two nested loops visit them
styledMarkers == <<
  [type |-> "boldItalic", marker |-> <<"*", "*", "*">>],
  [type |-> "boldItalic", marker |-> <<"_", "_", "_">>],
  [type |-> "bold", marker |-> <<"*", "*">>],
  [type |-> "bold", marker |-> <<"_", "_">>],
  [type |-> "italic", marker |-> <<"*">>],
  [type |-> "italic", marker |-> <<"_">>],
  [type |-> "strikethrough", marker |-> <<"~", "~">>],
  [type |-> "strikethrough", marker |-> <<"~">>] >>

\* variant of PairOf: a marker without a closing occurrence opens an empty span
PairOfUnclosed(sm, startIndex, endIndex) ==
  IF startIndex = -1 THEN NoMatch
  ELSE [type |-> sm.type, marker |-> sm.marker, startIndex |-> startIndex,
        endIndex |-> IF endIndex = -1 THEN startIndex + Len(sm.marker) ELSE endIndex]

\* "if (startIndex !== -1) ... if (endIndex !== -1 && ...)": a marker counts
\* only with both its first occurrence and a closing one
PairOf(sm, startIndex, endIndex) ==
  IF startIndex = -1 \/ endIndex = -1 THEN NoMatch
  ELSE [type |-> sm.type, marker |-> sm.marker,
        startIndex |-> startIndex, endIndex |-> endIndex]

\* the marker pair of one marker: its first occurrence and the next one after it
MarkerPair(str, sm) ==
  PairOf(sm, IndexOf(str, sm.marker, 0),
         IndexOf(str, sm.marker, IndexOf(str, sm.marker, 0) + Len(sm.marker)))

\* variant of StyledReplaces: a later marker also wins at an equal start offset
StyledReplacesOnTie(pair, earliest) ==
  earliest = NoMatch \/ pair.startIndex <= earliest.startIndex

\* whether the pair of a later marker replaces the earliest found so far
StyledReplaces(pair, earliest) ==
  earliest = NoMatch \/ pair.startIndex < earliest.startIndex

EarlierStyled(pair, earliest) ==
  IF pair # NoMatch /\ StyledReplaces(pair, earliest) THEN pair ELSE earliest

\* findEarliestStyledMarker
RECURSIVE FindEarliestStyledFrom(_, _, _)
FindEarliestStyledFrom(n, str, earliest) ==
  IF n > Len(styledMarkers) THEN earliest
  ELSE FindEarliestStyledFrom(n + 1, str,
         EarlierStyled(MarkerPair(str, styledMarkers[n]), earliest))

FindEarliestStyledMarker(str) == FindEarliestStyledFrom(1, str, NoMatch)

AtomicTypes == {"image", "link", "code"}
StyledTypes == {"boldItalic", "bold", "italic", "strikethrough"}

\* variant of EarliestOf: an atomic match is consumed whenever there is one
EarliestOfAtomicFirst(atomicMatch, styledMatch) ==
  IF atomicMatch # NoMatch THEN atomicMatch ELSE styledMatch

\* "Determine which comes first": the match one scan step consumes
EarliestOf(atomicMatch, styledMatch) ==
  IF atomicMatch # NoMatch /\ styledMatch # NoMatch
  THEN IF atomicMatch.index <= styledMatch.startIndex THEN atomicMatch ELSE styledMatch
  ELSE IF atomicMatch # NoMatch THEN atomicMatch ELSE styledMatch

EarliestMatch(text) == EarliestOf(FindEarliestMatch(text), FindEarliestStyledMarker(text))

\* where the consumed match starts and where the text after it starts
MatchStart(m) == IF m.type \in AtomicTypes THEN m.index ELSE m.startIndex
MatchEnd(m) ==
  IF m.type \in AtomicTypes THEN m.index + m.len ELSE m.endIndex + Len(m.marker)

\* the text a styled span hands to the recursive call
InnerText(text, m) == Slice(text, m.startIndex + Len(m.marker), m.endIndex)

TextToken(s) == [type |-> "text", content |-> s]

\* "if (preText) tokens.push(...)": the text before the match, when not empty
PreTokens(preText) == IF Len(preText) > 0 THEN <<TextToken(preText)>> ELSE <<>>

\* tokenizeInline: the while loop, one iteration per recursion step on the
\* remaining text (ConsumeMatch is the iteration that found match m); link
\* text and styled inner text are tokenized by a recursive call (MatchToken)
RECURSIVE TokenizeInline(_), ConsumeMatch(_, _), MatchToken(_, _)
TokenizeInline(text) ==
  IF Len(text) = 0 THEN <<>> ELSE ConsumeMatch(text, EarliestMatch(text))

ConsumeMatch(text, m) ==
  IF m = NoMatch THEN <<TextToken(text)>>
  ELSE PreTokens(Slice(text, 0, MatchStart(m))) \o <<MatchToken(text, m)>>
       \o TokenizeInline(SliceFrom(text, MatchEnd(m)))

MatchToken(text, m) ==
  CASE m.type = "image" -> [type |-> "image", alt |-> m.m1, src |-> m.m2]
    [] m.type = "link" ->
         [type |-> "link", content |-> TokenizeInline(m.m1), href |-> m.m2]
    [] m.type = "code" -> [type |-> "code", content |-> m.m1]
    [] OTHER -> [type |-> m.type, content |-> TokenizeInline(InnerText(text, m))]

\* the deepest chain of tokenizeInline activations a call on text builds; the
\* loop goes on in the same activation, a recursive call adds one
RECURSIVE InlineDepth(_), MatchDepth(_, _)
InlineDepth(text) ==
  IF Len(text) = 0 THEN 1 ELSE MatchDepth(text, EarliestMatch(text))

MatchDepth(text, m) ==
  IF m = NoMatch THEN 1
  ELSE Max(CASE m.type = "link" -> 1 + InlineDepth(m.m1)
             [] m.type \in StyledTypes -> 1 + InlineDepth(InnerText(text, m))
             [] OTHER -> 1,
           InlineDepth(SliceFrom(text, MatchEnd(m))))

-----------------------------------------------------------------------------
(* tokenizeUserInput: the block segmenter and its sub-parsers.             *)


\* /^([*\-_])\1{2,}$/ on the trimmed line
IsHorizontalRule(trimmed) ==
  /\ Len(trimmed) >= 3
  /\ trimmed[1] \in {"*", "-", "_"}
  /\ \A p \in 1..Len(trimmed) : trimmed[p] = trimmed[1]

\* /^>\s?/ on the trimmed line, and /^>/ on line.trim() in consumeBlockquote
StartsBlockquote(trimmed) == Len(trimmed) >= 1 /\ trimmed[1] = ">"

\* /^\d+\.\s+/ on the trimmed line
StartsOrderedItem(trimmed) ==
  LET d == RunEnd(trimmed, 0, DigitChars)
  IN /\ d >= 1
     /\ Len(trimmed) >= d + 2
     /\ trimmed[d + 1] = "."
     /\ trimmed[d + 2] \in SpaceChars

\* /^[-*]\s+/ on the trimmed line
StartsUnorderedItem(trimmed) ==
  /\ Len(trimmed) >= 2
  /\ trimmed[1] \in {"-", "*"}
  /\ trimmed[2] \in SpaceChars

NoRest == [ok |-> FALSE, rest |-> <<>>]

\* the tail "\s+(.*)$" of the item and heading patterns, from position p: the
\* greedy whitespace run, then the rest of the string, which "." must match
\* whole (no line terminator in it); gives match[2]
SpacesThenRest(s, p) ==
  IF ~(p < Len(s) /\ s[p + 1] \in SpaceChars) THEN NoRest
  ELSE LET q == RunEnd(s, p, SpaceChars)
       IN IF HasFrom(s, q, LineTerminators) THEN NoRest
          ELSE [ok |-> TRUE, rest |-> SliceFrom(s, q)]

\* line.match(/^(\d+)\.\s+(.*)$/) in consumeOrderedList
OrderedItemMatch(line) ==
  LET d == RunEnd(line, 0, DigitChars)
  IN IF d >= 1 /\ Len(line) > d /\ line[d + 1] = "."
     THEN SpacesThenRest(line, d + 1) ELSE NoRest

\* line.match(/^([-*])\s+(.*)$/) in consumeUnorderedList
UnorderedItemMatch(line) ==
  IF Len(line) >= 1 /\ line[1] \in {"-", "*"}
  THEN SpacesThenRest(line, 1) ELSE NoRest

\* the most "#" a heading pattern accepts: #{1,6}
MaxHeadingLevel == 6

\* trimmed.match(/^(#{1,6})\s+(.*)$/): level is headingMatch[1].length
HeadingMatch(trimmed) ==
  LET n == RunEnd(trimmed, 0, {"#"})
  IN IF n >= 1 /\ n <= MaxHeadingLevel
     THEN [level |-> n] @@ SpacesThenRest(trimmed, n)
     ELSE [level |-> 0] @@ NoRest

\* A value stored in an items array.  The source pushes the inline token array
\* itself (an Array object, which has no content and no items property); a
\* record with the one field "array" stands for it, so that the renderer can
\* ask for a property the way item.content does.
ArrayItem(inlineTokens) == [array |-> inlineTokens]

\* the item pattern of the list kind, on the trimmed line
ItemMatch(ordered, line) ==
  IF ordered THEN OrderedItemMatch(line) ELSE UnorderedItemMatch(line)

\* consumeUnorderedList / consumeOrderedList: the while loop from line i on
\* (ConsumeItem is the iteration whose line gave match); each item is the
\* inline token array of match[2]
RECURSIVE ConsumeListFrom(_, _, _, _, _), ConsumeItem(_, _, _, _, _, _)
ConsumeListFrom(lines, i, ordered, items, deepest) ==
  IF i >= Len(lines) THEN [items |-> items, endIndex |-> i, inline |-> deepest]
  ELSE ConsumeItem(lines, i, ordered, items, deepest,
                   ItemMatch(ordered, Trim(lines[i + 1])))

ConsumeItem(lines, i, ordered, items, deepest, match) ==
  IF ~match.ok THEN [items |-> items, endIndex |-> i, inline |-> deepest]
  ELSE ConsumeListFrom(lines, i + 1, ordered,
         Append(items, ArrayItem(TokenizeInline(match.rest))),
         Max(deepest, InlineDepth(match.rest)))

ConsumeOrderedList(lines, startIndex) ==
  ConsumeListFrom(lines, startIndex, TRUE, <<>>, 0)

ConsumeUnorderedList(lines, startIndex) ==
  ConsumeListFrom(lines, startIndex, FALSE, <<>>, 0)

\* consumeBlockquote, first loop: the index after the run of lines that start
\* with ">" after trimming or are blank
RECURSIVE BlockquoteEnd(_, _)
BlockquoteEnd(lines, i) ==
  IF i >= Len(lines) THEN i
  ELSE LET t == Trim(lines[i + 1])
       IN IF StartsBlockquote(t) \/ Len(t) = 0 THEN BlockquoteEnd(lines, i + 1) ELSE i

\* line.replace(/^>\s?/, "") on the collected (untrimmed) line
StripQuoteMarker(line) ==
  IF Len(line) >= 1 /\ line[1] = ">"
  THEN IF Len(line) >= 2 /\ line[2] \in SpaceChars
       THEN SliceFrom(line, 2) ELSE SliceFrom(line, 1)
  ELSE line

\* processedLines.join("\n"): the text consumeBlockquote hands to the nested
\* tokenizeUserInput call
BlockquoteContent(lines, startIndex, endIndex) ==
  JoinLines([k \in 1..(endIndex - startIndex) |->
               StripQuoteMarker(lines[startIndex + k])])

\* outcomes of a call: returned tokens, a RangeError (call stack exhausted),
\* or a loop that never ends
Returned(tokens, deepest) == [status |-> "ok", tokens |-> tokens, depth |-> deepest]
Threw(deepest) == [status |-> "RangeError", tokens |-> <<>>, depth |-> deepest]
Hangs(deepest) == [status |-> "hang", tokens |-> <<>>, depth |-> deepest]

\* the inline call of a heading, paragraph or list branch made from frame d
\* overflows the stack when its deepest activation passes the limit
InlineOverflows(d, inlineDepth) == d + inlineDepth > StackLimit

\* the text a heading or paragraph line hands to tokenizeInline
LineText(trimmed, headingMatch) ==
  IF headingMatch.ok THEN headingMatch.rest ELSE trimmed

\* the heading branch, and the paragraph branch that every other line takes
LineToken(headingMatch, content) ==
  IF headingMatch.ok
  THEN [megaType |-> "heading", level |-> headingMatch.level, content |-> content]
  ELSE [megaType |-> "paragraph", content |-> content]

\* tokenizeUserInput(input) running as call-stack frame d.  MainLoop is the
\* for loop over lines at index i; deepest is the deepest frame reached.
\* AfterBlockquote, AfterList and AfterLine are the rest of an iteration once
\* the sub-parser of its branch has run.
RECURSIVE TokenizeUserInput(_, _), MainLoop(_, _, _, _, _),
          AfterBlockquote(_, _, _, _, _, _), AfterList(_, _, _, _, _, _, _),
          AfterLine(_, _, _, _, _, _, _)
TokenizeUserInput(input, d) ==
  IF d > StackLimit THEN Threw(d)
  ELSE MainLoop(SplitLines(input), 0, <<>>, d, d)

MainLoop(lines, i, tokens, d, deepest) ==
  IF i >= Len(lines) THEN Returned(tokens, deepest)
  ELSE
    LET trimmed == Trim(lines[i + 1])
    IN
    IF Len(trimmed) = 0 THEN MainLoop(lines, i + 1, tokens, d, deepest)
    ELSE IF IsHorizontalRule(trimmed)
    THEN MainLoop(lines, i + 1, Append(tokens, [megaType |-> "hr"]), d, deepest)
    ELSE IF StartsBlockquote(trimmed)
    THEN \* consumeBlockquote is frame d + 1, its tokenizeUserInput call d + 2
         AfterBlockquote(lines, BlockquoteEnd(lines, i), tokens, d, deepest,
           TokenizeUserInput(
             BlockquoteContent(lines, i, BlockquoteEnd(lines, i)), d + 2))
    ELSE IF StartsOrderedItem(trimmed)
    THEN AfterList(lines, i, tokens, d, deepest, "olist", ConsumeOrderedList(lines, i))
    ELSE IF StartsUnorderedItem(trimmed)
    THEN AfterList(lines, i, tokens, d, deepest, "list", ConsumeUnorderedList(lines, i))
    ELSE AfterLine(lines, i, tokens, d, deepest,
           LineToken(HeadingMatch(trimmed),
                     TokenizeInline(LineText(trimmed, HeadingMatch(trimmed)))),
           InlineDepth(LineText(trimmed, HeadingMatch(trimmed))))

AfterBlockquote(lines, endIndex, tokens, d, deepest, content) ==
  IF content.status # "ok" THEN content
  ELSE MainLoop(lines, endIndex,
         Append(tokens, [megaType |-> "blockquote", content |-> content.tokens]),
         d, Max(deepest, content.depth))

\* "i = endIndex - 1; continue" and the i++ of the loop: with endIndex = i the
\* same line is dispatched again, for ever
AfterList(lines, i, tokens, d, deepest, megaType, r) ==
  IF InlineOverflows(d + 1, r.inline) THEN Threw(StackLimit + 1)
  ELSE IF r.endIndex <= i THEN Hangs(deepest)
  ELSE MainLoop(lines, r.endIndex,
         Append(tokens, [megaType |-> megaType, items |-> r.items]),
         d, Max(deepest, d + 1 + r.inline))

\* variant of AfterLine: a paragraph line is joined to the paragraph before it
AfterLineSoftWrap(lines, i, tokens, d, deepest, token, inlineDepth) ==
  IF InlineOverflows(d, inlineDepth) THEN Threw(StackLimit + 1)
  ELSE IF /\ Len(tokens) > 0
          /\ tokens[Len(tokens)].megaType = "paragraph"
          /\ token.megaType = "paragraph"
  THEN MainLoop(lines, i + 1,
         [tokens EXCEPT ![Len(tokens)].content = @ \o token.content],
         d, Max(deepest, d + inlineDepth))
  ELSE MainLoop(lines, i + 1, Append(tokens, token), d, Max(deepest, d + inlineDepth))

AfterLine(lines, i, tokens, d, deepest, token, inlineDepth) ==
  IF InlineOverflows(d, inlineDepth) THEN Threw(StackLimit + 1)
  ELSE MainLoop(lines, i + 1, Append(tokens, token), d, Max(deepest, d + inlineDepth))

\* the exported tokenizer, called from the top of the stack
Tokenizer(input) == TokenizeUserInput(input, 1)

\* variant of TokenizerIn: the tokenizer looks at a setting
TokenizerByTheme(cfg, input) ==
  IF cfg.useCustomTheme THEN Tokenizer(input) ELSE Tokenizer(<<>>)

\* tokenizer(input) called while the settings are cfg: tokenizer.js imports
\* nothing and declares nothing outside tokenizeUserInput, and its regular
\* expressions are literals evaluated anew in every call with lastIndex set
\* to 0 before each exec, so the call sees its argument only
TokenizerIn(cfg, input) == Tokenizer(input)

-----------------------------------------------------------------------------
(* convertTokensToHTML: the renderer.  An HTML string is a sequence of     *)
(* atoms: each literal piece of markup the source writes is one atom, each *)
(* character that comes from a token is one atom (a character or, once     *)
(* escaped, its entity).                                                   *)

\* escapeHTML: the five characters to their entities
EscapeChar(c) ==
  CASE c = "&" -> "&amp;"
    [] c = "<" -> "&lt;"
    [] c = ">" -> "&gt;"
    [] c = "\"" -> "&quot;"
    [] c = "'" -> "&#39;"
    [] OTHER -> c

\* variant of EscapeHTML: the string goes out as it is
EscapeNothing(str) == str

\* escapeHTML: String.prototype.replace with the callback on each character
EscapeHTML(str) == [p \in 1..Len(str) |-> EscapeChar(str[p])]

\* escapeAttribute: the two quote characters only
EscapeAttribute(str) ==
  [p \in 1..Len(str) |->
     IF str[p] = "\"" THEN "&quot;" ELSE IF str[p] = "'" THEN "&#39;" ELSE str[p]]

\* ` class="ct-parsed <names>"` when useCustomTheme is on, else nothing
ClassAttr(applyCustomStyle, names) ==
  IF applyCustomStyle THEN " class=\"ct-parsed " \o names \o "\"" ELSE ""

\* an opening tag with its optional class attribute, as one atom
OpenTag(tag, applyCustomStyle, names) ==
  "<" \o tag \o ClassAttr(applyCustomStyle, names) \o ">"

\* Array.prototype.join(sep) over rendered pieces
RECURSIVE JoinHTML(_, _)
JoinHTML(pieces, sep) ==
  IF Len(pieces) = 0 THEN <<>>
  ELSE IF Len(pieces) = 1 THEN pieces[1]
  ELSE pieces[1] \o sep \o JoinHTML(Tail(pieces), sep)

\* href.match(/^https?:\/\//)
HasHttpScheme(href) ==
  \/ OccursAt(href, <<"h", "t", "t", "p", ":", "/", "/">>, 0)
  \/ OccursAt(href, <<"h", "t", "t", "p", "s", ":", "/", "/">>, 0)

\* variant of LinkHref: the href is used as the token gives it
LinkHrefAsGiven(href) == href

\* the link branch: "https://" is put before an href without a scheme
LinkHref(href) ==
  IF Len(href) > 0 /\ ~HasHttpScheme(href)
  THEN <<"h", "t", "t", "p", "s", ":", "/", "/">> \o href ELSE href

StyledTag(type) ==
  CASE type = "bold" -> [tag |-> "strong", names |-> "bold"]
    [] type = "italic" -> [tag |-> "em", names |-> "italic"]
    [] type = "strikethrough" -> [tag |-> "del", names |-> "strikethrough"]
    [] type = "subscript" -> [tag |-> "sub", names |-> "subscript"]
    [] type = "superscript" -> [tag |-> "sup", names |-> "superscript"]
    [] type = "highlight" -> [tag |-> "mark", names |-> "highlight"]

\* inlineTokensToHTML over an array of inline tokens; InlineTokenToHTML is
\* the callback of its map
RECURSIVE InlineTokensToHTML(_, _), InlineTokenToHTML(_, _)
InlineTokensToHTML(inlineTokens, theme) ==
  JoinHTML([k \in 1..Len(inlineTokens) |-> InlineTokenToHTML(inlineTokens[k], theme)],
           <<>>)

InlineTokenToHTML(token, theme) ==
  CASE token.type = "text" -> EscapeHTML(token.content)
    [] token.type = "boldItalic" ->
         <<OpenTag("strong", theme, "bold"), OpenTag("em", theme, "italic")>>
         \o InlineTokensToHTML(token.content, theme)
         \o <<"</em></strong>">>
    [] token.type \in {"bold", "italic", "strikethrough", "subscript",
                       "superscript", "highlight"} ->
         <<OpenTag(StyledTag(token.type).tag, theme, StyledTag(token.type).names)>>
         \o InlineTokensToHTML(token.content, theme)
         \o <<"</" \o StyledTag(token.type).tag \o ">">>
    [] token.type = "link" ->
         <<"<a href=\"">> \o EscapeAttribute(LinkHref(token.href))
         \o <<"\"" \o ClassAttr(theme, "link") \o ">">>
         \o InlineTokensToHTML(token.content, theme)
         \o <<"</a>">>
    [] token.type = "image" ->
         <<"<img src=\"">> \o EscapeAttribute(token.src)
         \o <<"\" alt=\"">> \o EscapeAttribute(token.alt)
         \o <<"\"" \o ClassAttr(theme, "image") \o " />">>
    [] token.type = "code" ->
         <<OpenTag("code", theme, "code")>> \o EscapeHTML(token.content)
         \o <<"</code>">>
    [] OTHER -> <<>>

\* item.content, item.items of a value of an items array (undefined reads as
\* the empty array: inlineTokensToHTML(undefined) is '' and the nested list
\* is left out)
ItemContent(item) == IF "content" \in DOMAIN item THEN item.content ELSE <<>>
ItemChildren(item) == IF "items" \in DOMAIN item THEN item.items ELSE <<>>

\* renderListItems; ListItemToHTML is the callback of its map
RECURSIVE RenderListItems(_, _, _), ListItemToHTML(_, _, _)
RenderListItems(items, ordered, theme) ==
  JoinHTML([k \in 1..Len(items) |-> ListItemToHTML(items[k], ordered, theme)],
           <<"\n">>)

ListItemToHTML(item, ordered, theme) ==
  <<OpenTag("li", theme, "list-item")>>
  \o InlineTokensToHTML(ItemContent(item), theme)
  \o (IF Len(ItemChildren(item)) > 0
      THEN <<OpenTag(IF ordered THEN "ol" ELSE "ul", theme,
                     IF ordered THEN "olist nested-list" ELSE "list nested-list"),
             "\n">>
           \o RenderListItems(ItemChildren(item), ordered, theme)
           \o <<"\n", IF ordered THEN "</ol>" ELSE "</ul>">>
      ELSE <<>>)
  \o <<"</li>">>

\* item.checked read as a condition: a missing property is falsy
ItemChecked(item) == "checked" \in DOMAIN item /\ item.checked

\* the callback of the map over the items of a task list: the checkbox, then
\* the inline content; a nested items array of the item is not looked at
TaskItemToHTML(item, theme) ==
  <<OpenTag("li", theme, "tasklist-item"),
    "<input type=\"checkbox\" disabled"
      \o (IF ItemChecked(item) THEN " checked" ELSE "") \o " /> ">>
  \o InlineTokensToHTML(ItemContent(item), theme)
  \o <<"</li>">>

\* the task list markup, written twice in the source: case "tasklist", and
\* case "list" when an item has a checked property
TaskListToHTML(items, theme) ==
  <<OpenTag("ul", theme, "tasklist"), "\n">>
  \o JoinHTML([k \in 1..Len(items) |-> TaskItemToHTML(items[k], theme)], <<"\n">>)
  \o <<"\n", "</ul>">>

\* token.items.some(item => 'checked' in item)
HasCheckedItems(items) == \E k \in 1..Len(items) : "checked" \in DOMAIN items[k]

\* case "list": ordered, task list or unordered
ListToHTML(token, theme) ==
  IF "ordered" \in DOMAIN token /\ token.ordered
  THEN <<OpenTag("ol", theme, "olist"), "\n">>
       \o RenderListItems(token.items, TRUE, theme) \o <<"\n", "</ol>">>
  ELSE IF HasCheckedItems(token.items)
  THEN TaskListToHTML(token.items, theme)
  ELSE <<OpenTag("ul", theme, "list"), "\n">>
       \o RenderListItems(token.items, FALSE, theme) \o <<"\n", "</ul>">>

\* case "table": the callbacks of the maps over header cells, rows and cells
HeaderCellToHTML(cellTokens, theme) ==
  <<OpenTag("th", theme, "table-header-cell")>>
  \o InlineTokensToHTML(cellTokens, theme) \o <<"</th>">>

CellToHTML(cellTokens, theme) ==
  <<OpenTag("td", theme, "table-cell")>>
  \o InlineTokensToHTML(cellTokens, theme) \o <<"</td>">>

RowToHTML(row, theme) ==
  <<OpenTag("tr", theme, "table-row")>>
  \o JoinHTML([k \in 1..Len(row) |-> CellToHTML(row[k], theme)], <<>>)
  \o <<"</tr>">>

TableToHTML(headerData, rowsData, theme) ==
  <<OpenTag("div", theme, "table-container"), OpenTag("table", theme, "table")>>
  \o (IF Len(headerData) > 0
      THEN <<"<thead><tr>">>
           \o JoinHTML([k \in 1..Len(headerData) |->
                          HeaderCellToHTML(headerData[k], theme)], <<>>)
           \o <<"</tr></thead>">>
      ELSE <<>>)
  \o <<"<tbody>">>
  \o JoinHTML([k \in 1..Len(rowsData) |-> RowToHTML(rowsData[k], theme)], <<"\n">>)
  \o <<"</tbody>", "</table></div>">>

\* Math.min(Math.max(token.level, 1), 6)
ClampLevel(level) == IF level < 1 THEN 1 ELSE IF level > 6 THEN 6 ELSE level

\* the heading branch, with level already clamped and written in decimal
HeadingToHTML(level, content, theme) ==
  <<OpenTag("h" \o level, theme, "heading heading-" \o level)>>
  \o InlineTokensToHTML(content, theme) \o <<"</h" \o level \o ">">>

\* String.prototype.toLowerCase over the characters the model writes ("A" is
\* the one upper-case letter of its alphabets)
ToLowerCase(str) == [p \in 1..Len(str) |-> IF str[p] = "A" THEN "a" ELSE str[p]]

\* the code-block branch: the markup of the icon up to the language in its URL
IconSrcOpen == "<img src=\"https://cdn.jsdelivr.net/gh/devicons/devicon@latest/icons/"

\* the rest of the icon markup after the src attribute, with the fallback
\* span (its content, the character U+1F4BB, is written by code point)
IconTail(theme) ==
  "\"\n        alt=\"code icon\"" \o ClassAttr(theme, "codeblock-image")
  \o " onerror=\"this.style.display='none'; "
  \o "this.nextElementSibling.style.display='inline';\" />\n"
  \o "              <span style=\"display:none; font-size: 1.2em; margin-right: 5px;\""
  \o ClassAttr(theme, "codeblock-fallback-icon") \o ">U+1F4BB</span>"

\* the icon of a language: lang.toLowerCase() goes into the URL twice, as it is
LanguageIcon(lower, theme) ==
  <<IconSrcOpen>> \o lower \o <<"/">> \o lower
  \o <<"-original.svg" \o IconTail(theme)>>

\* the generic icon used when the language name is switched off
GenericIcon(theme) == <<IconSrcOpen \o "code/code-plain.svg" \o IconTail(theme)>>

\* variant of CodeIconHTML: the icon of the language whenever icons are on
CodeIconOfLanguage(lang, cfg) ==
  IF cfg.IconInCode THEN LanguageIcon(ToLowerCase(lang), cfg.useCustomTheme) ELSE <<>>

\* iconHTML and nameHTML of a code block with a non-empty language
CodeIconHTML(lang, cfg) ==
  IF cfg.IconInCode /\ cfg.LanguageNameInCode
  THEN LanguageIcon(ToLowerCase(lang), cfg.useCustomTheme)
  ELSE IF cfg.IconInCode THEN GenericIcon(cfg.useCustomTheme)
  ELSE <<>>

CodeNameHTML(lang, cfg) == IF cfg.LanguageNameInCode THEN EscapeHTML(lang) ELSE <<>>

\* langLabel: the div around icon and name, when there is either
LangLabelOf(theme, iconHTML, nameHTML) ==
  IF Len(iconHTML) > 0 \/ Len(nameHTML) > 0
  THEN <<OpenTag("div", theme, "codeblock-lang-label")>> \o iconHTML \o nameHTML
       \o <<"</div>">>
  ELSE <<>>

LangLabel(lang, cfg) ==
  IF Len(lang) > 0
  THEN LangLabelOf(cfg.useCustomTheme, CodeIconHTML(lang, cfg), CodeNameHTML(lang, cfg))
  ELSE <<>>

\* token.language, undefined (falsy) when the token has no such field
TokenLanguage(token) == IF "language" \in DOMAIN token THEN token.language ELSE <<>>

CodeBlockToHTML(token, cfg) ==
  LangLabel(TokenLanguage(token), cfg)
  \o <<OpenTag("pre", cfg.useCustomTheme, "codeblock-pre"),
        OpenTag("code", cfg.useCustomTheme, "codeblock-code")>>
  \o EscapeHTML(token.content)
  \o <<"</code></pre>">>

\* convertTokensToHTML over an array of block tokens, under the settings cfg;
\* BlockTokenToHTML is the callback of its map (the switch on megaType)
RECURSIVE ConvertTokensToHTML(_, _), BlockTokenToHTML(_, _)
ConvertTokensToHTML(tokens, cfg) ==
  JoinHTML([k \in 1..Len(tokens) |-> BlockTokenToHTML(tokens[k], cfg)], <<"\n">>)

BlockTokenToHTML(token, cfg) ==
  CASE token.megaType = "heading" ->
         HeadingToHTML(ToString(ClampLevel(token.level)), token.content,
                       cfg.useCustomTheme)
    [] token.megaType = "paragraph" ->
         <<OpenTag("p", cfg.useCustomTheme, "paragraph")>>
         \o InlineTokensToHTML(token.content, cfg.useCustomTheme) \o <<"</p>">>
    [] token.megaType = "blockquote" ->
         <<OpenTag("blockquote", cfg.useCustomTheme, "blockquote")>>
         \o ConvertTokensToHTML(token.content, cfg) \o <<"</blockquote>">>
    [] token.megaType = "tasklist" ->
         TaskListToHTML(token.items, cfg.useCustomTheme)
    [] token.megaType = "list" -> ListToHTML(token, cfg.useCustomTheme)
    [] token.megaType = "table" ->
         TableToHTML(token.header, token.rows, cfg.useCustomTheme)
    [] token.megaType = "horizontalRule" ->
         <<OpenTag("hr", cfg.useCustomTheme, "hr")>>
    [] token.megaType = "codeBlock" -> CodeBlockToHTML(token, cfg)
    \* unknown megaType ("hr" and "olist" of this tokenizer among them)
    [] OTHER -> <<>>

-----------------------------------------------------------------------------
(* convertTokensToHTML on arbitrary JavaScript values: the same code read
   with the guards, coercions and method calls that matter when a token or
   one of its fields is missing, null or of another type.                   *)

\* JavaScript values, by type.  A string is held as its characters; the names
\* of token types are strings of one atom.
JsNull == [js |-> "null"]
JsUndefined == [js |-> "undefined"]
JsNumber(n) == [js |-> "number", num |-> n]
JsString(chars) == [js |-> "string", chars |-> chars]
JsName(name) == [js |-> "string", chars |-> <<name>>]
JsArray(elems) == [js |-> "array", elems |-> elems]
JsObject(fields) == [js |-> "object", fields |-> fields]

\* the value read as a condition
ToBoolean(v) ==
  CASE v.js \in {"null", "undefined"} -> FALSE
    [] v.js = "number" -> v.num # 0
    [] v.js = "string" -> Len(v.chars) > 0
    [] OTHER -> TRUE

\* a || b
OrElse(a, b) == IF ToBoolean(a) THEN a ELSE b

\* typeof v === 'object'
TypeofObject(v) == v.js \in {"object", "array", "null"}

\* v[name] for a name no array, string or number carries; reading it from
\* null or undefined is a TypeError, which the callers test before
Prop(v, name) ==
  IF v.js = "object" /\ name \in DOMAIN v.fields THEN v.fields[name] ELSE JsUndefined

\* v.length > 0
HasElements(v) ==
  CASE v.js = "array" -> Len(v.elems) > 0
    [] v.js = "string" -> Len(v.chars) > 0
    [] OTHER -> FALSE

\* the decimal digits of a natural number
RECURSIVE NumberChars(_)
NumberChars(n) ==
  IF n < 10 THEN <<ToString(n)>> ELSE NumberChars(n \div 10) \o <<ToString(n % 10)>>

\* String(v); the elements of an array are joined with commas, null and
\* undefined elements as nothing
RECURSIVE ToStr(_)
ToStr(v) ==
  CASE v.js = "null" -> <<"n", "u", "l", "l">>
    [] v.js = "undefined" -> <<"u", "n", "d", "e", "f", "i", "n", "e", "d">>
    [] v.js = "number" -> NumberChars(v.num)
    [] v.js = "string" -> v.chars
    [] v.js = "array" ->
         JoinHTML([k \in 1..Len(v.elems) |->
                     IF v.elems[k].js \in {"null", "undefined"} THEN <<>>
                     ELSE ToStr(v.elems[k])], <<",">>)
    [] OTHER -> <<"[object Object]">>

\* Math.min(Math.max(level, 1), 6) written into the tag: a level that is not a
\* number is converted, and one that converts to NaN gives NaN
LevelText(level) ==
  CASE level.js = "number" -> ToString(ClampLevel(level.num))
    [] level.js = "null" -> "1"
    [] level.js = "string" /\ Len(level.chars) = 0 -> "1"
    [] level.js = "string" /\ Len(level.chars) = 1 /\ level.chars[1] \in DigitChars ->
         ToString(ClampLevel(CHOOSE n \in 0..9 : ToString(n) = level.chars[1]))
    [] level.js = "array" /\ Len(level.elems) = 0 -> "1"
    [] OTHER -> "NaN"

\* how a call ends: with a string, or with a TypeError
ReturnsHTML(html) == [status |-> "return", value |-> html]
TypeError == [status |-> "TypeError", value |-> <<>>]

\* pieces.join(sep) when every piece was computed, the TypeError otherwise
Joined(outcomes, sep) ==
  IF \E k \in 1..Len(outcomes) : outcomes[k].status # "return" THEN TypeError
  ELSE ReturnsHTML(JoinHTML([k \in 1..Len(outcomes) |-> outcomes[k].value], sep))

\* open + inner + close
Around(open, inner, close) ==
  IF inner.status # "return" THEN TypeError
  ELSE ReturnsHTML(open \o inner.value \o close)

\* the string a switch compares with its case labels
NameOf(v) == IF v.js = "string" /\ Len(v.chars) = 1 THEN v.chars[1] ELSE ""

\* the link branch on the values of href and linkContent
LinkValueToHTML(href, inner, theme) ==
  IF ToBoolean(href) /\ href.js # "string" THEN TypeError
  ELSE Around(<<"<a href=\"">> \o EscapeAttribute(LinkHref(ToStr(href)))
                \o <<"\"" \o ClassAttr(theme, "link") \o ">">>,
              inner, <<"</a>">>)

\* inlineTokensToHTML and the callback of its map
RECURSIVE InlineValuesToHTML(_, _), InlineValueToHTML(_, _, _)
InlineValuesToHTML(v, theme) ==
  IF ~ToBoolean(v) THEN ReturnsHTML(<<>>)
  ELSE IF v.js = "string" THEN ReturnsHTML(EscapeHTML(v.chars))
  ELSE IF v.js # "array" THEN ReturnsHTML(<<>>)
  ELSE Joined([k \in 1..Len(v.elems) |->
                 InlineValueToHTML(v.elems[k], NameOf(Prop(v.elems[k], "type")), theme)],
              <<>>)

InlineValueToHTML(token, type, theme) ==
  IF ~ToBoolean(token) \/ ~TypeofObject(token) THEN ReturnsHTML(<<>>)
  ELSE
  CASE type = "text" -> ReturnsHTML(EscapeHTML(ToStr(Prop(token, "content"))))
    [] type = "boldItalic" ->
         Around(<<OpenTag("strong", theme, "bold"), OpenTag("em", theme, "italic")>>,
                InlineValuesToHTML(Prop(token, "content"), theme),
                <<"</em></strong>">>)
    [] type \in {"bold", "italic", "strikethrough", "subscript",
                 "superscript", "highlight"} ->
         Around(<<OpenTag(StyledTag(type).tag, theme, StyledTag(type).names)>>,
                InlineValuesToHTML(Prop(token, "content"), theme),
                <<"</" \o StyledTag(type).tag \o ">">>)
    [] type = "link" ->
         LinkValueToHTML(
           OrElse(OrElse(Prop(token, "href"), Prop(token, "url")), JsString(<<>>)),
           InlineValuesToHTML(
             OrElse(OrElse(Prop(token, "content"), Prop(token, "text")), JsString(<<>>)),
             theme),
           theme)
    [] type = "image" ->
         ReturnsHTML(
           <<"<img src=\"">>
           \o EscapeAttribute(ToStr(OrElse(Prop(token, "src"), JsString(<<>>))))
           \o <<"\" alt=\"">>
           \o EscapeAttribute(ToStr(OrElse(Prop(token, "alt"), JsString(<<>>))))
           \o <<"\"" \o ClassAttr(theme, "image") \o " />">>)
    [] type = "code" ->
         ReturnsHTML(<<OpenTag("code", theme, "code")>>
                     \o EscapeHTML(ToStr(Prop(token, "content"))) \o <<"</code>">>)
    [] OTHER ->
         IF Prop(token, "content").js = "array"
         THEN InlineValuesToHTML(Prop(token, "content"), theme)
         ELSE ReturnsHTML(EscapeHTML(ToStr(OrElse(Prop(token, "content"), JsString(<<>>)))))

\* renderListItems and the callback of its map; item.content of a null or
\* undefined item is a TypeError
RECURSIVE RenderItemValues(_, _, _), ItemValueToHTML(_, _, _, _)
RenderItemValues(items, ordered, theme) ==
  IF ~ToBoolean(items) \/ items.js # "array" THEN ReturnsHTML(<<>>)
  ELSE Joined([k \in 1..Len(items.elems) |->
                 ItemValueToHTML(items.elems[k],
                   OrElse(OrElse(Prop(items.elems[k], "items"),
                                 Prop(items.elems[k], "children")), JsArray(<<>>)),
                   ordered, theme)],
              <<"\n">>)

ItemValueToHTML(item, nestedItems, ordered, theme) ==
  IF item.js \in {"null", "undefined"} THEN TypeError
  ELSE Joined(
         << ReturnsHTML(<<OpenTag("li", theme, "list-item")>>),
            InlineValuesToHTML(Prop(item, "content"), theme),
            IF HasElements(nestedItems)
            THEN Around(<<OpenTag(IF ordered THEN "ol" ELSE "ul", theme,
                                  IF ordered THEN "olist nested-list"
                                  ELSE "list nested-list"), "\n">>,
                        RenderItemValues(nestedItems, ordered, theme),
                        <<"\n", IF ordered THEN "</ol>" ELSE "</ul>">>)
            ELSE ReturnsHTML(<<>>),
            ReturnsHTML(<<"</li>">>) >>,
         <<>>)

\* the task-list markup: (token.items || []).map(...), a TypeError when the
\* value has no map method or an item is null or undefined
TaskItemValueToHTML(item, theme) ==
  IF item.js \in {"null", "undefined"} THEN TypeError
  ELSE Around(<<OpenTag("li", theme, "tasklist-item"),
                "<input type=\"checkbox\" disabled"
                  \o (IF ToBoolean(Prop(item, "checked")) THEN " checked" ELSE "")
                  \o " /> ">>,
              InlineValuesToHTML(Prop(item, "content"), theme),
              <<"</li>">>)

TaskListValueToHTML(items, theme) ==
  IF items.js # "array" THEN TypeError
  ELSE Around(<<OpenTag("ul", theme, "tasklist"), "\n">>,
              Joined([k \in 1..Len(items.elems) |->
                        TaskItemValueToHTML(items.elems[k], theme)], <<"\n">>),
              <<"\n", "</ul>">>)

\* items.some(item => 'checked' in item) from element k on: the in operator
\* applied to a value that is not an object is a TypeError
RECURSIVE SomeChecked(_, _)
SomeChecked(elems, k) ==
  IF k > Len(elems) THEN [status |-> "return", value |-> FALSE]
  ELSE IF elems[k].js \notin {"object", "array"} THEN [status |-> "TypeError", value |-> FALSE]
  ELSE IF elems[k].js = "object" /\ "checked" \in DOMAIN elems[k].fields
  THEN [status |-> "return", value |-> TRUE]
  ELSE SomeChecked(elems, k + 1)

\* token.items && token.items.some(...)
HasCheckedValues(items) ==
  IF ~ToBoolean(items) THEN [status |-> "return", value |-> FALSE]
  ELSE IF items.js # "array" THEN [status |-> "TypeError", value |-> FALSE]
  ELSE SomeChecked(items.elems, 1)

\* the list branch
ListValueToHTML(token, hasCheckedItems, theme) ==
  IF ToBoolean(Prop(token, "ordered"))
  THEN Around(<<OpenTag("ol", theme, "olist"), "\n">>,
              RenderItemValues(Prop(token, "items"), TRUE, theme), <<"\n", "</ol>">>)
  ELSE IF hasCheckedItems.status # "return" THEN TypeError
  ELSE IF hasCheckedItems.value
  THEN TaskListValueToHTML(OrElse(Prop(token, "items"), JsArray(<<>>)), theme)
  ELSE Around(<<OpenTag("ul", theme, "list"), "\n">>,
              RenderItemValues(Prop(token, "items"), FALSE, theme), <<"\n", "</ul>">>)

\* the table branch: headerData.map, rowsData.map and row.map are TypeErrors
\* on values that are not arrays
RowValueToHTML(row, theme) ==
  IF row.js # "array" THEN TypeError
  ELSE Around(<<OpenTag("tr", theme, "table-row")>>,
              Joined([c \in 1..Len(row.elems) |->
                        Around(<<OpenTag("td", theme, "table-cell")>>,
                               InlineValuesToHTML(row.elems[c], theme), <<"</td>">>)],
                     <<>>),
              <<"</tr>">>)

TableValueToHTML(headerData, rowsData, theme) ==
  IF headerData.js # "array" \/ rowsData.js # "array" THEN TypeError
  ELSE Joined(
         << ReturnsHTML(<<OpenTag("div", theme, "table-container"),
                          OpenTag("table", theme, "table")>>),
            IF Len(headerData.elems) > 0
            THEN Around(<<"<thead><tr>">>,
                        Joined([c \in 1..Len(headerData.elems) |->
                                  Around(<<OpenTag("th", theme, "table-header-cell")>>,
                                         InlineValuesToHTML(headerData.elems[c], theme),
                                         <<"</th>">>)], <<>>),
                        <<"</tr></thead>">>)
            ELSE ReturnsHTML(<<>>),
            Around(<<"<tbody>">>,
                   Joined([r \in 1..Len(rowsData.elems) |->
                             RowValueToHTML(rowsData.elems[r], theme)], <<"\n">>),
                   <<"</tbody>", "</table></div>">>) >>,
         <<>>)

\* the code-block branch: lang.toLowerCase() is a TypeError on a truthy value
\* that is not a string
CodeBlockValueToHTML(lang, content, cfg) ==
  IF ToBoolean(lang) /\ cfg.IconInCode /\ cfg.LanguageNameInCode /\ lang.js # "string"
  THEN TypeError
  ELSE ReturnsHTML(
         (IF ToBoolean(lang)
          THEN LangLabelOf(cfg.useCustomTheme,
                           IF lang.js = "string" THEN CodeIconHTML(lang.chars, cfg)
                           ELSE IF cfg.IconInCode THEN GenericIcon(cfg.useCustomTheme)
                           ELSE <<>>,
                           CodeNameHTML(ToStr(lang), cfg))
          ELSE <<>>)
         \o <<OpenTag("pre", cfg.useCustomTheme, "codeblock-pre"),
               OpenTag("code", cfg.useCustomTheme, "codeblock-code")>>
         \o EscapeHTML(ToStr(content))
         \o <<"</code></pre>">>)

\* convertTokensToHTML and the callback of its map
RECURSIVE ConvertValue(_, _), BlockValueToHTML(_, _, _)
ConvertValue(tokens, cfg) ==
  IF ~ToBoolean(tokens) \/ tokens.js # "array" THEN ReturnsHTML(<<>>)
  ELSE Joined([k \in 1..Len(tokens.elems) |->
                 BlockValueToHTML(tokens.elems[k],
                                  NameOf(Prop(tokens.elems[k], "megaType")), cfg)],
              <<"\n">>)

BlockValueToHTML(token, megaType, cfg) ==
  IF ~ToBoolean(token) \/ ~TypeofObject(token) THEN ReturnsHTML(<<>>)
  ELSE
  CASE megaType = "heading" ->
         Around(<<OpenTag("h" \o LevelText(Prop(token, "level")), cfg.useCustomTheme,
                          "heading heading-" \o LevelText(Prop(token, "level")))>>,
                InlineValuesToHTML(Prop(token, "content"), cfg.useCustomTheme),
                <<"</h" \o LevelText(Prop(token, "level")) \o ">">>)
    [] megaType = "paragraph" ->
         Around(<<OpenTag("p", cfg.useCustomTheme, "paragraph")>>,
                InlineValuesToHTML(Prop(token, "content"), cfg.useCustomTheme),
                <<"</p>">>)
    [] megaType = "blockquote" ->
         Around(<<OpenTag("blockquote", cfg.useCustomTheme, "blockquote")>>,
                Joined(<< IF Prop(token, "content").js = "array"
                          THEN ConvertValue(Prop(token, "content"), cfg)
                          ELSE IF Prop(token, "content").js = "string"
                          THEN ReturnsHTML(EscapeHTML(Prop(token, "content").chars))
                          ELSE ReturnsHTML(<<>>),
                          IF Prop(token, "children").js = "array"
                          THEN ConvertValue(Prop(token, "children"), cfg)
                          ELSE ReturnsHTML(<<>>) >>, <<>>),
                <<"</blockquote>">>)
    [] megaType = "tasklist" ->
         TaskListValueToHTML(OrElse(Prop(token, "items"), JsArray(<<>>)),
                             cfg.useCustomTheme)
    [] megaType = "list" ->
         ListValueToHTML(token, HasCheckedValues(Prop(token, "items")),
                         cfg.useCustomTheme)
    [] megaType = "table" ->
         TableValueToHTML(
           OrElse(OrElse(Prop(token, "header"), Prop(token, "headers")), JsArray(<<>>)),
           OrElse(Prop(token, "rows"), JsArray(<<>>)),
           cfg.useCustomTheme)
    [] megaType = "horizontalRule" ->
         ReturnsHTML(<<OpenTag("hr", cfg.useCustomTheme, "hr")>>)
    [] megaType = "codeBlock" ->
         CodeBlockValueToHTML(Prop(token, "language"), Prop(token, "content"), cfg)
    [] OTHER -> ReturnsHTML(<<>>)

-----------------------------------------------------------------------------
(* cattownConfig.js and cattownMain.js: settings, sanitizer, returnHTML.   *)

\* the config object as the module is loaded
DefaultConfig ==
  [useCustomTheme |-> TRUE, debugMode |-> FALSE, enableSanitization |-> TRUE,
   LanguageNameInCode |-> TRUE, IconInCode |-> TRUE, autoHeadingID |-> TRUE]

SettingNames == DOMAIN DefaultConfig

\* Names every object literal inherits from Object.prototype. The model
\* carries two of them (hasOwnProperty, valueOf, isPrototypeOf, ... behave the
\* same way).
InheritedNames == {"toString", "constructor"}

\* "setting in config": own properties and the prototype chain
InConfig(cfg, setting) == setting \in DOMAIN cfg \/ setting \in InheritedNames

\* values getSettings hands back
Undefined == [type |-> "undefined"]
BooleanValue(b) == [type |-> "boolean", bool |-> b]
InheritedFunction(setting) == [type |-> "function", name |-> setting]

\* config[setting]: the own property, else the one of Object.prototype
ConfigGet(cfg, setting) ==
  IF setting \in DOMAIN cfg THEN BooleanValue(cfg[setting])
  ELSE IF setting \in InheritedNames THEN InheritedFunction(setting)
  ELSE Undefined

\* config[setting] = value: overwrites the own property, or creates one
ConfigAssign(cfg, setting, value) ==
  [k \in DOMAIN cfg \cup {setting} |-> IF k = setting THEN value ELSE cfg[k]]

\* variant of SetSettingsOn: the assignment is left out
SetSettingsIgnored(cfg, setting, value) == cfg

\* setSettings: assigns when "setting in config", else only warns
SetSettingsOn(cfg, setting, value) ==
  IF InConfig(cfg, setting) THEN ConfigAssign(cfg, setting, value) ELSE cfg

\* getSettings: config[setting] when "setting in config", else warns and
\* returns undefined
GetSettingsOf(cfg, setting) ==
  IF InConfig(cfg, setting)
  THEN [status |-> "return", value |-> ConfigGet(cfg, setting)]
  ELSE [status |-> "return", value |-> Undefined]

\* let DOMPurify = null
Null == [name |-> "null", typeof |-> "object", sanitize |-> "missing"]

\* Values a caller may hand to setDOMPurify: what typeof gives for the value
\* and what reading and calling its sanitize property does ("returns": a
\* method that returns a string; "throws": a method that throws; "missing":
\* no such method, so the call is a TypeError).
Instances ==
  { [name |-> "purifyFn", typeof |-> "function", sanitize |-> "returns"],
    [name |-> "otherFn", typeof |-> "function", sanitize |-> "returns"],
    [name |-> "throwingFn", typeof |-> "function", sanitize |-> "throws"],
    [name |-> "plainFn", typeof |-> "function", sanitize |-> "missing"],
    [name |-> "mockObject", typeof |-> "object", sanitize |-> "returns"],
    [name |-> "aString", typeof |-> "string", sanitize |-> "missing"],
    [name |-> "undefined", typeof |-> "undefined", sanitize |-> "missing"],
    Null }

\* the typeof test of setDOMPurify
Accepts(instance) == instance.typeof = "function"

\* variant of SetDOMPurifyOn: a rejected value removes the installed sanitizer
SetDOMPurifyOrClear(current, instance) ==
  IF Accepts(instance) THEN instance ELSE Null

\* setDOMPurify: the throw for a non-function is caught inside the function,
\* which then only logs; the assignment is skipped
SetDOMPurifyOn(current, instance) ==
  IF Accepts(instance) THEN instance ELSE current

\* the try block of setDOMPurify: the throw for a value that is no function
SetDOMPurifyTry(instance) ==
  IF Accepts(instance) THEN [status |-> "return"]
  ELSE [status |-> "throw",
        message |-> "Type of instance is not function, got " \o instance.typeof]

\* the catch block of setDOMPurify: logs the error, after which the function
\* returns undefined
SetDOMPurifyCatch(outcome) == [status |-> "return"]

\* what a call setDOMPurify(instance) does to its caller
SetDOMPurifyOutcome(instance) == SetDOMPurifyCatch(SetDOMPurifyTry(instance))

\* the string instance.sanitize(html) returns: not interpreted, only told
\* apart from html itself and from the output of another instance
SanitizeOutput(instance, html) == <<"sanitized by " \o instance.name \o ":">> \o html

\* "useSanitization && DOMPurify": null is falsy, an installed function truthy
Truthy(purify) == purify # Null

NoValue == <<"(no value)">>

\* the sanitization step of returnHTML on the rendered dirtyHTML;
\* sanitizeCalls counts the calls of DOMPurify.sanitize
SanitizeStep(dirtyHTML, cfg, purify) ==
  IF cfg.enableSanitization /\ Truthy(purify)
  THEN IF purify.sanitize = "returns"
       THEN [status |-> "return", value |-> SanitizeOutput(purify, dirtyHTML),
             sanitizeCalls |-> 1]
       ELSE [status |-> "throw", value |-> NoValue,
             sanitizeCalls |-> IF purify.sanitize = "throws" THEN 1 ELSE 0]
  ELSE [status |-> "return", value |-> dirtyHTML, sanitizeCalls |-> 0]

\* the steps of the try block after tokenizer(markdown) gave outcome t
RenderStep(t, cfg, purify) ==
  IF t.status = "hang"
  THEN [status |-> "hang", value |-> NoValue, sanitizeCalls |-> 0]
  ELSE IF t.status # "ok"
  THEN [status |-> "throw", value |-> NoValue, sanitizeCalls |-> 0]
  ELSE SanitizeStep(ConvertTokensToHTML(t.tokens, cfg), cfg, purify)

\* the try block of returnHTML: what it returns, or that it threw, or that
\* it never finishes
ReturnHTMLBody(markdown, cfg, purify) == RenderStep(Tokenizer(markdown), cfg, purify)

\* variant of CatchReturnEmpty: no catch block, the exception reaches the caller
CatchNothing(outcome) == outcome

\* the catch block of returnHTML: logs and returns ""
CatchReturnEmpty(outcome) ==
  IF outcome.status = "throw" THEN [outcome EXCEPT !.status = "return", !.value = <<>>]
  ELSE outcome

\* returnHTML(markdown)
ReturnHTMLOf(markdown, cfg, purify) ==
  CatchReturnEmpty(ReturnHTMLBody(markdown, cfg, purify))

-----------------------------------------------------------------------------
(* cattownMain.js: insertIntoElement, appendIntoElement, replaceIntoElement *)
(* and the part of the DOM they use.  A node is a record: kind (element or *)
(* text), shape (its markup as the renderer wrote it, or its text) and     *)
(* born (the call that created it, which tells nodes of equal shape apart). *)

\* the tags that open and close a block of the renderer's output
BlockTags ==
  { [tag |-> "p", names |-> "paragraph"],
    [tag |-> "blockquote", names |-> "blockquote"],
    [tag |-> "ul", names |-> "list"],
    [tag |-> "ul", names |-> "list nested-list"],
    [tag |-> "ol", names |-> "olist"],
    [tag |-> "ol", names |-> "olist nested-list"] }
  \cup {[tag |-> "h" \o ToString(level),
         names |-> "heading heading-" \o ToString(level)] : level \in 1..MaxHeadingLevel}

BlockOpeners == {OpenTag(b.tag, theme, b.names) : b \in BlockTags, theme \in BOOLEAN}
BlockClosers == {"</" \o b.tag \o ">" : b \in BlockTags}
VoidBlocks == {OpenTag("hr", theme, "hr") : theme \in BOOLEAN}

TextNode(text, born) == [kind |-> "text", shape |-> text, born |-> born]
ElementNode(markup, born) == [kind |-> "element", shape |-> markup, born |-> born]

\* a character or other text met between blocks joins the text node before
\* it, or starts one
AddText(nodes, atom, born) ==
  IF Len(nodes) > 0 /\ nodes[Len(nodes)].kind = "text"
  THEN [nodes EXCEPT ![Len(nodes)].shape = @ \o <<atom>>]
  ELSE Append(nodes, TextNode(<<atom>>, born))

\* the HTML parser behind the innerHTML setter, on the markup the renderer
\* and the sanitizer write: html from position p on, depth blocks open, open
\* the markup of the block being read, nodes the children built so far
RECURSIVE ParseFrom(_, _, _, _, _, _)
ParseFrom(html, p, depth, open, nodes, born) ==
  IF p > Len(html) THEN nodes
  ELSE IF html[p] \in BlockClosers /\ depth = 1
  THEN ParseFrom(html, p + 1, 0, <<>>,
                 Append(nodes, ElementNode(Append(open, html[p]), born)), born)
  ELSE IF depth > 0
  THEN ParseFrom(html, p + 1,
                 IF html[p] \in BlockOpeners THEN depth + 1
                 ELSE IF html[p] \in BlockClosers THEN depth - 1 ELSE depth,
                 Append(open, html[p]), nodes, born)
  ELSE IF html[p] \in BlockOpeners
  THEN ParseFrom(html, p + 1, 1, <<html[p]>>, nodes, born)
  ELSE IF html[p] \in VoidBlocks
  THEN ParseFrom(html, p + 1, 0, <<>>,
                 Append(nodes, ElementNode(<<html[p]>>, born)), born)
  ELSE ParseFrom(html, p + 1, 0, <<>>, AddText(nodes, html[p], born), born)

\* element.innerHTML = html: the children are new nodes parsed from html
ParseHTML(html, born) == ParseFrom(html, 1, 0, <<>>, <<>>, born)

\* reading element.innerHTML: the markup of the children, in order
RECURSIVE Serialize(_)
Serialize(nodes) ==
  IF Len(nodes) = 0 THEN <<>> ELSE Head(nodes).shape \o Serialize(Tail(nodes))

\* variant of InsertOn: a failed conversion empties the element
InsertOrClear(children, outcome, born) ==
  IF outcome.status = "return" THEN ParseHTML(outcome.value, born) ELSE <<>>

\* the try block of insertIntoElement: the steps of returnHTML, then
\* element.innerHTML = the HTML; a throw leaves the element as it was
InsertOn(children, outcome, born) ==
  IF outcome.status = "return" THEN ParseHTML(outcome.value, born) ELSE children

\* variant of AppendOn: the HTML replaces the content
AppendReplacing(children, outcome, born) == InsertOn(children, outcome, born)

\* the try block of appendIntoElement: element.innerHTML += the HTML
AppendOn(children, outcome, born) ==
  IF outcome.status = "return"
  THEN ParseHTML(Serialize(children) \o outcome.value, born)
  ELSE children

\* variant of NodesAreEqual: no two nodes compare equal
NodesNeverEqual(n1, n2) == FALSE

\* nodesAreEqual(n1, n2): node type, then text content for text nodes, and
\* tag name, attributes and children for elements
NodesAreEqual(n1, n2) == n1.kind = n2.kind /\ n1.shape = n2.shape

\* step 5 of replaceIntoElement: the existing nodes beyond the new length
\* are removed
RemoveExtra(existingNodes, newNodes) ==
  IF Len(existingNodes) > Len(newNodes)
  THEN SubSeq(existingNodes, 1, Len(newNodes)) ELSE existingNodes

\* step 6 of replaceIntoElement: the loop from index i over the new nodes;
\* children is the child list of the element so far
RECURSIVE UpdateFrom(_, _, _, _)
UpdateFrom(children, existingNodes, newNodes, i) ==
  IF i > Len(newNodes) THEN children
  ELSE IF i > Len(existingNodes)
  THEN UpdateFrom(Append(children, newNodes[i]), existingNodes, newNodes, i + 1)
  ELSE IF ~NodesAreEqual(existingNodes[i], newNodes[i])
  THEN UpdateFrom([children EXCEPT ![i] = newNodes[i]], existingNodes, newNodes, i + 1)
  ELSE UpdateFrom(children, existingNodes, newNodes, i + 1)

\* steps 3 to 6: the new nodes are parsed into a temporary div and merged
DiffInto(existingNodes, newNodes) ==
  UpdateFrom(RemoveExtra(existingNodes, newNodes), existingNodes, newNodes, 1)

\* the try block of replaceIntoElement
ReplaceOn(children, outcome, born) ==
  IF outcome.status = "return"
  THEN DiffInto(children, ParseHTML(outcome.value, born))
  ELSE children

\* what the three functions give their caller: undefined, also after the
\* catch block logged an error; a tokenizer that never finishes leaves the
\* call without return
IntoElementOutcome(outcome) ==
  IF outcome.status = "hang" THEN [status |-> "hang"] ELSE [status |-> "return"]

-----------------------------------------------------------------------------
(* Inputs.                                                                 *)

\* all strings over alphabet A of length 0..n
Strings(A, n) == UNION {[1..k -> A] : k \in 0..n}

\* characters of the block-level inputs enumerated exhaustively
BlockAlphabet == {"a", " ", "\n", "\r", "#", ">", "-", "*", "1", "."}

\* characters of the inline inputs enumerated exhaustively
InlineAlphabet == {"a", "*", "_", "~", "\\", Backtick}

\* longer inputs: the examples of the specification and of the tests
ListExample ==
  <<"-", " ", "a", "\n", " ", " ", "-", " ", "b", "\n",
    " ", " ", "-", " ", "c", "\n", "-", " ", "d">>
BlockExamples ==
  { ListExample,
    <<"H", "e", "l", "l", "o", " ", "w", "o", "r", "l", "d">>,
    <<"#", "#", "#", "#", "#", "#", " ", "H", "6">>,
    <<"#", "#", "#", "#", "#", "#", "#", " ", "a">>,
    <<"#", " ", "a", "\r", "b">>,
    <<"-", " ", "a", "\r", "b">>,
    <<">", " ", "a", "\n", ">", " ", ">", " ", "b">>,
    <<" ", " ", " ", "\n", " ", " ", "\t", " ", " ">> }

BoldItalicExample == <<"*", "*", "*", "x", "*", "*", "*">>
BoldNestExample == <<"*", "*", "a", " ", "*", "b", "*", " ", "c", "*", "*">>
LoneStarExample == <<"a", " ", "*", " ", "b">>
EscapedExample ==
  <<"\\", "*", "n", "o", "t", " ", "i", "t", "a", "l", "i", "c", "\\", "*">>
InlineExamples ==
  { BoldItalicExample, BoldNestExample, LoneStarExample, EscapedExample,
    <<"[", "a", "]", "(", "b", ")">>,
    <<"!", "[", "a", "]", "(", "b", ")">>,
    <<"*", "[", "a", "]", "(", "b", ")", "*">>,
    <<"[", "*", "a", "*", "]", "(", "b", ")">>,
    <<"[", "a", "]", "(", "b">>,
    <<"_", "_", "a", "_", "_", " ", "_", "b", "_">>,
    <<"a", "*", "b", "*", "[", "c", "]", "(", "d", ")">>,
    <<"a", Backtick, "*", Backtick, "*", "b", "*">> }

BlockInputs == Strings(BlockAlphabet, MaxInputLen) \cup BlockExamples
InlineInputs == Strings(InlineAlphabet, MaxInlineLen) \cup InlineExamples

\* characters of the strings inside tokens handed to the renderer: a letter in
\* both cases and the five characters escapeHTML replaces
TextAlphabet == {"a", "A", "&", "<", ">", "\"", "'"}
TokenTexts == Strings(TextAlphabet, MaxTextLen)

\* link targets with and without a scheme
HrefExamples ==
  { <<"h", "t", "t", "p", ":", "/", "/", "a">>,
    <<"h", "t", "t", "p", "s", ":", "/", "/", "a">>,
    <<"h", "t", "t", "p", "s", ":", "/", "/">>,
    <<"h", "t", "t", "p", ":", "/", "a">>,
    <<"h", "t", "t", "p", "x", ":", "/", "/", "a">>,
    <<"f", "t", "p", ":", "/", "/", "a">>,
    <<"a", ".", "b">>,
    <<"a", "h", "t", "t", "p", ":", "/", "/">>,
    <<"/", "/", "a">> }
Hrefs == TokenTexts \cup HrefExamples

Paragraph(inline) == [megaType |-> "paragraph", content |-> <<inline>>]
LinkTo(href) == [type |-> "link", content |-> <<TextToken(<<"a">>)>>, href |-> href]

\* list items as the renderer reads them: content, optional nested items,
\* optional checked
Item(letter) == [content |-> <<TextToken(<<letter>>)>>]
Parent(letter, children) == [content |-> <<TextToken(<<letter>>)>>, items |-> children]
Task(letter, checked) == [content |-> <<TextToken(<<letter>>)>>, checked |-> checked]
NestedItems == <<Parent("a", <<Item("b"), Parent("c", <<Item("d")>>)>>), Item("e")>>
Cell(letter) == <<TextToken(<<letter>>)>>

\* block tokens of every kind the renderer knows, with nested and task items
StructuredInputs ==
  { <<[megaType |-> "list", items |-> NestedItems]>>,
    <<[megaType |-> "list", ordered |-> TRUE, items |-> NestedItems]>>,
    <<[megaType |-> "list", ordered |-> FALSE, items |-> <<Item("a"), Item("b")>>]>>,
    <<[megaType |-> "list",
       items |-> <<[content |-> <<TextToken(<<"a">>)>>, checked |-> TRUE,
                    items |-> <<Item("b"), Item("c")>>],
                   Item("d")>>]>>,
    <<[megaType |-> "list", items |-> <<Task("a", FALSE), Parent("b", <<Item("c")>>)>>]>>,
    <<[megaType |-> "tasklist", items |-> <<Task("a", TRUE), Task("b", FALSE)>>]>>,
    <<[megaType |-> "table", header |-> <<Cell("a"), Cell("b")>>,
       rows |-> << <<Cell("c"), Cell("d")>>, <<Cell("e"), Cell("f")>> >>]>>,
    <<[megaType |-> "table", header |-> <<>>, rows |-> << <<Cell("c")>> >>]>>,
    <<[megaType |-> "blockquote", content |-> <<Paragraph(TextToken(<<"a">>))>>]>>,
    <<[megaType |-> "horizontalRule"]>>,
    <<[megaType |-> "unknown"]>> }
  \cup {<<[megaType |-> "heading", level |-> level, content |-> <<TextToken(<<"a">>)>>]>> :
          level \in 0..(MaxHeadingLevel + 1)}
  \cup {<<Paragraph([type |-> type, content |-> <<TextToken(<<"a">>)>>])>> :
          type \in StyledTypes \cup {"subscript", "superscript", "highlight"}}

\* arguments with missing fields, tried one by one
MalformedInputs ==
  << <<[megaType |-> "codeBlock", content |-> <<"a">>]>> >>

\* token arrays handed to convertTokensToHTML: one block token with one leaf
\* inline token each
RenderInputs ==
  {<<Paragraph(TextToken(text))>> : text \in TokenTexts}
  \cup {<<Paragraph([type |-> "code", content |-> text])>> : text \in TokenTexts}
  \cup {<<Paragraph(LinkTo(href))>> : href \in Hrefs}
  \cup {<<Paragraph([type |-> "image", alt |-> <<"a">>, src |-> text])>> :
          text \in TokenTexts}
  \cup {<<Paragraph([type |-> "image", alt |-> text, src |-> <<"a">>])>> :
          text \in TokenTexts}
  \cup {<<[megaType |-> "codeBlock", language |-> language, content |-> content]>> :
          language \in TokenTexts, content \in Strings(TextAlphabet, 1)}

\* values for a field where the renderer expects an array, a string or a
\* number: undefined (the field is missing), null, and values of other types
FieldValues ==
  << JsUndefined, JsNull, JsNumber(5), JsNumber(0), JsString(<<"a", "b">>),
     JsString(<<"2">>), JsString(<<>>), JsObject(<<>>), JsArray(<<>>),
     JsArray(<<JsNull>>), JsArray(<<JsNumber(5)>>), JsArray(<<JsObject(<<>>)>>),
     JsArray(<<JsArray(<<JsNull>>)>>) >>

TextValue(chars) == JsObject([type |-> JsName("text"), content |-> JsString(chars)])
ParagraphValue(content) ==
  JsObject([megaType |-> JsName("paragraph"), content |-> content])
ValidParagraph == ParagraphValue(JsString(<<"v">>))

\* the arguments of the error-handling tests of tokensToHTML.test.js
TestedValues ==
  << JsNull, JsUndefined, JsArray(<<>>), JsString(<<"s">>), JsNumber(123),
     JsObject(<<>>),
     JsArray(<<ParagraphValue(JsNull), ParagraphValue(JsUndefined), ValidParagraph>>),
     JsArray(<<ParagraphValue(JsString(<<>>)), ValidParagraph>>),
     JsArray(<<ParagraphValue(JsNumber(123)), ValidParagraph>>),
     JsArray(<<JsNull, JsUndefined, ValidParagraph>>),
     JsArray(<<JsString(<<"s">>), JsNumber(123), ValidParagraph>>),
     JsArray(<<JsObject([megaType |-> JsName("unknownType"),
                         content |-> JsString(<<"t">>)])>>),
     JsArray(<<ParagraphValue(JsNull)>>),
     JsArray(<<JsObject([megaType |-> JsName("heading")])>>) >>

\* one token with one field set to value, for the fields content, level,
\* items, rows, header, href and language
TokenWith(field, value) ==
  CASE field = "content" -> ParagraphValue(value)
    [] field = "text" ->
         ParagraphValue(JsArray(<<JsObject([type |-> JsName("text"), content |-> value])>>))
    [] field = "level" ->
         JsObject([megaType |-> JsName("heading"), level |-> value,
                   content |-> JsArray(<<TextValue(<<"a">>)>>)])
    [] field = "list" -> JsObject([megaType |-> JsName("list"), items |-> value])
    [] field = "olist" ->
         JsObject([megaType |-> JsName("list"), ordered |-> JsNumber(1), items |-> value])
    [] field = "tasklist" -> JsObject([megaType |-> JsName("tasklist"), items |-> value])
    [] field = "nested" ->
         JsObject([megaType |-> JsName("list"),
                   items |-> JsArray(<<JsObject([content |-> JsString(<<"a">>),
                                                 items |-> value])>>)])
    [] field = "rows" ->
         JsObject([megaType |-> JsName("table"),
                   header |-> JsArray(<<JsString(<<"a">>)>>), rows |-> value])
    [] field = "header" ->
         JsObject([megaType |-> JsName("table"), header |-> value,
                   rows |-> JsArray(<<JsArray(<<JsString(<<"a">>)>>)>>)])
    [] field = "href" ->
         ParagraphValue(JsArray(<<JsObject([type |-> JsName("link"), href |-> value,
                                            content |-> JsString(<<"a">>)])>>))
    [] field = "src" ->
         ParagraphValue(JsArray(<<JsObject([type |-> JsName("image"), src |-> value])>>))
    [] field = "language" ->
         JsObject([megaType |-> JsName("codeBlock"), language |-> value,
                   content |-> JsString(<<"a">>)])
    [] field = "code" -> JsObject([megaType |-> JsName("codeBlock"), content |-> value])
    [] field = "quote" -> JsObject([megaType |-> JsName("blockquote"), content |-> value])

TokenFields ==
  << "content", "text", "level", "list", "olist", "tasklist", "nested", "rows",
     "header", "href", "src", "language", "code", "quote" >>

\* the values handed to convertTokensToHTML: those of the tests, then every
\* field with every value
ValueInputs ==
  TestedValues
  \o [n \in 1..(Len(TokenFields) * Len(FieldValues)) |->
        JsArray(<<TokenWith(TokenFields[((n - 1) \div Len(FieldValues)) + 1],
                            FieldValues[((n - 1) % Len(FieldValues)) + 1])>>)]

\* settings the renderer reads
RenderSettings == {"useCustomTheme", "LanguageNameInCode", "IconInCode"}

\* markdown handed to the functions that write to an element
DomInputs ==
  { <<>>, <<"a">>, <<"a", "\n", "b">>, <<"c", "\n", "b">>, <<" ", ">", "a">>,
    <<"-", " ", "a">> }

\* sanitizers installed while writing to an element
DomInstances == {i \in Instances : i.name \in {"purifyFn", "throwingFn"}}

\* markdown handed to the conversion functions
ApiInputs ==
  { <<>>, <<"a">>, <<"*", "*", "a", "*", "*">>, <<"#", " ", "<">>,
    <<">", "a">>, <<" ", ">", "a">>, <<"-", " ", "a">>, <<"-", " ", "a", "\r", "b">> }

\* settings a caller changes in the API specification, a name that is none,
\* and a name that object literals inherit
ApiSettings ==
  {"enableSanitization", "useCustomTheme", "nonExistentSetting", "toString"}

-----------------------------------------------------------------------------
(* The state machine.                                                      *)

NoResult == [status |-> "none"]
NotGiven == [name |-> "(never called)", typeof |-> "undefined", sanitize |-> "missing"]

InitModule ==
  /\ config = DefaultConfig
  /\ DOMPurify = Null
  /\ given = NotGiven
  /\ pc = "ready"
  /\ result = NoResult
  /\ element = <<>>
  /\ calls = 0

\* the library as loaded, before any call
Init == InitModule /\ call = [op |-> "load", arg |-> <<>>]

\* setSettings(setting, value)
SetSettings(setting, value) ==
  /\ config' = SetSettingsOn(config, setting, value)
  /\ pc' = "done"
  /\ call' = [op |-> "setSettings", arg |-> <<setting, value>>]
  /\ result' = NoResult
  /\ UNCHANGED <<DOMPurify, given, element, calls>>

\* getSettings(setting)
GetSettings(setting) ==
  /\ pc' = "done"
  /\ call' = [op |-> "getSettings", arg |-> <<setting>>]
  /\ result' = GetSettingsOf(config, setting)
  /\ UNCHANGED <<config, DOMPurify, given, element, calls>>

\* setDOMPurify(instance)
SetDOMPurify(instance) ==
  /\ DOMPurify' = SetDOMPurifyOn(DOMPurify, instance)
  /\ given' = instance
  /\ pc' = "done"
  /\ call' = [op |-> "setDOMPurify", arg |-> <<instance.name>>]
  /\ result' = SetDOMPurifyOutcome(instance)
  /\ UNCHANGED <<config, element, calls>>

\* returnHTML(markdown)
ReturnHTML(markdown) ==
  /\ pc' = "done"
  /\ call' = [op |-> "returnHTML", arg |-> markdown]
  /\ result' = ReturnHTMLOf(markdown, config, DOMPurify)
  /\ UNCHANGED <<config, DOMPurify, given, element, calls>>

\* tokenizer(markdown), called by the user of the library
Tokenize(markdown) ==
  /\ pc' = "done"
  /\ call' = [op |-> "tokenizer", arg |-> markdown]
  /\ result' = TokenizerIn(config, markdown)
  /\ UNCHANGED <<config, DOMPurify, given, element, calls>>

Next ==
  \/ \E setting \in ApiSettings, value \in BOOLEAN : SetSettings(setting, value)
  \/ \E setting \in ApiSettings : GetSettings(setting)
  \/ \E instance \in Instances : SetDOMPurify(instance)
  \/ \E markdown \in ApiInputs : ReturnHTML(markdown)
  \/ \E markdown \in ApiInputs : Tokenize(markdown)

Spec == Init /\ [][Next]_vars

\* tokenizer(input) called directly on each block-level input
InitBlock == InitModule /\ call \in {[op |-> "tokenizer", arg |-> s] : s \in BlockInputs}

CallTokenizer ==
  /\ pc = "ready"
  /\ call.op = "tokenizer"
  /\ pc' = "done"
  /\ result' = Tokenizer(call.arg)
  /\ UNCHANGED <<config, DOMPurify, given, call, element, calls>>

SpecBlock == InitBlock /\ [][CallTokenizer]_vars

\* tokenizeInline(text) on each inline input
InitInline ==
  InitModule /\ call \in {[op |-> "tokenizeInline", arg |-> s] : s \in InlineInputs}

CallTokenizeInline ==
  /\ pc = "ready"
  /\ call.op = "tokenizeInline"
  /\ pc' = "done"
  /\ result' = [status |-> "ok", tokens |-> TokenizeInline(call.arg),
                depth |-> InlineDepth(call.arg)]
  /\ UNCHANGED <<config, DOMPurify, given, call, element, calls>>

SpecInline == InitInline /\ [][CallTokenizeInline]_vars

\* convertTokensToHTML(tokens) on each token array, under every value of the
\* settings it reads: the caller first changes settings, then converts
InitRender ==
  /\ InitModule
  /\ \/ \E tokens \in RenderInputs :
          call = [op |-> "convertTokensToHTML", arg |-> tokens]
     \/ \E tokens \in StructuredInputs :
          call = [op |-> "convertTokensToHTML", arg |-> tokens]
     \/ \E k \in 1..Len(MalformedInputs) :
          call = [op |-> "convertTokensToHTML", arg |-> MalformedInputs[k]]

ChangeRenderSetting(setting, value) ==
  /\ pc = "ready"
  /\ config' = SetSettingsOn(config, setting, value)
  /\ UNCHANGED <<DOMPurify, given, pc, call, result, element, calls>>

CallConvertTokensToHTML ==
  /\ pc = "ready"
  /\ call.op = "convertTokensToHTML"
  /\ pc' = "done"
  /\ result' = [status |-> "return", value |-> ConvertTokensToHTML(call.arg, config)]
  /\ UNCHANGED <<config, DOMPurify, given, call, element, calls>>

NextRender ==
  \/ \E setting \in RenderSettings, value \in BOOLEAN :
       ChangeRenderSetting(setting, value)
  \/ CallConvertTokensToHTML

SpecRender == InitRender /\ [][NextRender]_vars

\* convertTokensToHTML(value) on values of any type, under every value of the
\* settings
InitValues ==
  /\ InitModule
  /\ \E n \in 1..Len(ValueInputs) :
       call = [op |-> "convertTokensToHTML", arg |-> ValueInputs[n]]

CallConvertOnValue ==
  /\ pc = "ready"
  /\ call.op = "convertTokensToHTML"
  /\ pc' = "done"
  /\ result' = ConvertValue(call.arg, config)
  /\ UNCHANGED <<config, DOMPurify, given, call, element, calls>>

NextValues ==
  \/ \E setting \in RenderSettings, value \in BOOLEAN :
       ChangeRenderSetting(setting, value)
  \/ CallConvertOnValue

SpecValues == InitValues /\ [][NextValues]_vars

\* insertIntoElement(markdown, element)
InsertIntoElement(markdown) ==
  /\ calls < MaxCalls
  /\ calls' = calls + 1
  /\ element' = InsertOn(element, ReturnHTMLBody(markdown, config, DOMPurify), calls + 1)
  /\ pc' = "done"
  /\ call' = [op |-> "insertIntoElement", arg |-> markdown]
  /\ result' = IntoElementOutcome(ReturnHTMLBody(markdown, config, DOMPurify))
  /\ UNCHANGED <<config, DOMPurify, given>>

\* appendIntoElement(markdown, element)
AppendIntoElement(markdown) ==
  /\ calls < MaxCalls
  /\ calls' = calls + 1
  /\ element' = AppendOn(element, ReturnHTMLBody(markdown, config, DOMPurify), calls + 1)
  /\ pc' = "done"
  /\ call' = [op |-> "appendIntoElement", arg |-> markdown]
  /\ result' = IntoElementOutcome(ReturnHTMLBody(markdown, config, DOMPurify))
  /\ UNCHANGED <<config, DOMPurify, given>>

\* replaceIntoElement(markdown, element)
ReplaceIntoElement(markdown) ==
  /\ calls < MaxCalls
  /\ calls' = calls + 1
  /\ element' = ReplaceOn(element, ReturnHTMLBody(markdown, config, DOMPurify), calls + 1)
  /\ pc' = "done"
  /\ call' = [op |-> "replaceIntoElement", arg |-> markdown]
  /\ result' = IntoElementOutcome(ReturnHTMLBody(markdown, config, DOMPurify))
  /\ UNCHANGED <<config, DOMPurify, given>>

\* the library with one element that the caller writes to
NextDOM ==
  \/ \E value \in BOOLEAN : SetSettings("enableSanitization", value)
  \/ \E instance \in DomInstances : SetDOMPurify(instance)
  \/ \E markdown \in DomInputs : InsertIntoElement(markdown)
  \/ \E markdown \in DomInputs : AppendIntoElement(markdown)
  \/ \E markdown \in DomInputs : ReplaceIntoElement(markdown)

SpecDOM == Init /\ [][NextDOM]_vars

-----------------------------------------------------------------------------
(* Properties of the tokenizer (SpecBlock, SpecInline) and of returnHTML   *)
(* (Spec).                                                                 *)

Done == pc = "done"
Tokens == result.tokens

\* C1: tokenize(s) terminates and returns a token array without throwing for
\* every input string s: blank input, malformed markup, leading whitespace
\* before a marker, deep nesting.
C1_TokenizeTotal == Done => result.status = "ok"

\* an input that is n >= 1 quote markers followed by the letter a
QuoteChain(s) ==
  /\ Len(s) >= 2
  /\ s[Len(s)] = "a"
  /\ \A p \in 1..(Len(s) - 1) : s[p] = ">"

\* C2: the call depth of tokenize is bounded by a constant that does not
\* depend on the input: a quote nested n deep reaches no deeper a call stack
\* than a quote nested once.
C2_CallDepthConstant ==
  Done /\ result.status = "ok" /\ QuoteChain(call.arg)
    => result.depth = Tokenizer(<<">", "a">>).depth

\* whether the trimmed line begins one of the other block constructs
StartsOtherBlock(trimmed) ==
  \/ IsHorizontalRule(trimmed)
  \/ StartsBlockquote(trimmed)
  \/ StartsOrderedItem(trimmed)
  \/ StartsUnorderedItem(trimmed)
  \/ HeadingMatch(trimmed).ok

BlankLine(line) == Len(Trim(line)) = 0
PlainLine(line) == ~BlankLine(line) /\ ~StartsOtherBlock(Trim(line))
ParagraphOf(line) == [megaType |-> "paragraph", content |-> TokenizeInline(Trim(line))]
IsParagraph(token) == token.megaType = "paragraph"

\* one paragraph per plain line, in source order
RECURSIVE ExpectedParagraphs(_)
ExpectedParagraphs(lines) ==
  IF Len(lines) = 0 THEN <<>>
  ELSE (IF PlainLine(Head(lines)) THEN <<ParagraphOf(Head(lines))>> ELSE <<>>)
       \o ExpectedParagraphs(Tail(lines))

OneLine(s) == \A p \in 1..Len(s) : s[p] # "\n"
Letters == {"a", "b", "c", "d", "e", "i", "l", "n", "o", "r", "t", "w", "x", "H", " "}
NoMarkup(s) == \A p \in 1..Len(s) : s[p] \in Letters

\* C3: blank lines produce no token; every non-blank line that starts no
\* other block construct becomes its own paragraph token, in source order,
\* holding the inline lexing of the trimmed line, and adjacent such lines are
\* never joined; a one-line input without markup is one paragraph with one
\* text token (the trimmed line); blank input gives no token.
C3_Paragraphs ==
  Done /\ result.status = "ok" =>
    /\ SelectSeq(Tokens, IsParagraph) = ExpectedParagraphs(SplitLines(call.arg))
    /\ (\A k \in 1..Len(SplitLines(call.arg)) :
          BlankLine(SplitLines(call.arg)[k]) \/ PlainLine(SplitLines(call.arg)[k]))
         => Tokens = ExpectedParagraphs(SplitLines(call.arg))
    /\ OneLine(call.arg) /\ NoMarkup(call.arg) /\ ~BlankLine(call.arg)
         => Tokens = <<[megaType |-> "paragraph",
                        content |-> <<TextToken(Trim(call.arg))>>]>>
    /\ BlankLine(call.arg) => Tokens = <<>>

\* two plain lines with a blank line between them gave two paragraphs
C3_Witness ==
  /\ Done /\ result.status = "ok"
  /\ Len(SplitLines(call.arg)) = 3
  /\ PlainLine(SplitLines(call.arg)[1])
  /\ BlankLine(SplitLines(call.arg)[2])
  /\ PlainLine(SplitLines(call.arg)[3])
  /\ Len(Tokens) = 2
  /\ IsParagraph(Tokens[1]) /\ IsParagraph(Tokens[2])

\* the number of leading "#" of the trimmed line
HashRun(trimmed) == RunEnd(trimmed, 0, {"#"})

\* the trimmed line starts with 1 to 6 "#" followed by whitespace
HeadingStart(trimmed) ==
  /\ HashRun(trimmed) \in 1..6
  /\ Len(trimmed) > HashRun(trimmed)
  /\ trimmed[HashRun(trimmed) + 1] \in SpaceChars

\* C4: a line is a heading iff, after trimming, it starts with 1 to 6 "#"
\* followed by whitespace; the level is the number of leading "#", so it lies
\* in 1..6; a line with 7 or more leading "#" is a paragraph.
C4_HeadingIff ==
  Done /\ result.status = "ok" /\ OneLine(call.arg) /\ ~BlankLine(call.arg) =>
    /\ Len(Tokens) = 1
    /\ HeadingStart(Trim(call.arg)) <=> Tokens[1].megaType = "heading"
    /\ Tokens[1].megaType = "heading" =>
         Tokens[1].level = HashRun(Trim(call.arg)) /\ Tokens[1].level \in 1..6
    /\ HashRun(Trim(call.arg)) >= 7 => Tokens[1].megaType = "paragraph"

\* the candidate pairs of all styled markers in str
StyledPairs(str) ==
  {MarkerPair(str, styledMarkers[n]) : n \in 1..Len(styledMarkers)} \ {NoMatch}

Precedence(type) ==
  CASE type = "boldItalic" -> 1
    [] type = "bold" -> 2
    [] type = "italic" -> 3
    [] type = "strikethrough" -> 4

\* pair p is consumed rather than pair q: the smaller start offset, then the
\* precedence order, which prefers the longer marker
Wins(p, q) ==
  \/ p.startIndex < q.startIndex
  \/ /\ p.startIndex = q.startIndex
     /\ Precedence(p.type) <= Precedence(q.type)
     /\ Len(p.marker) >= Len(q.marker)

BestPair(str) ==
  CHOOSE p \in StyledPairs(str) : \A q \in StyledPairs(str) : Wins(p, q)

\* C5: among styled marker pairs the one with the smallest start offset is
\* consumed and, at an equal start offset, the one first in the precedence
\* boldItalic > bold > italic > strikethrough (the longer marker); "***x***"
\* gives one boldItalic token and "**a *b* c**" one bold token around an italic.
C5_StyledPrecedence ==
  Done =>
    /\ FindEarliestMatch(call.arg) = NoMatch /\ StyledPairs(call.arg) # {}
         => /\ \E p \in StyledPairs(call.arg) : \A q \in StyledPairs(call.arg) : Wins(p, q)
            /\ Tokens[IF BestPair(call.arg).startIndex = 0 THEN 1 ELSE 2] =
                 [type |-> BestPair(call.arg).type,
                  content |-> TokenizeInline(InnerText(call.arg, BestPair(call.arg)))]
    /\ call.arg = BoldItalicExample
         => Tokens = <<[type |-> "boldItalic", content |-> <<TextToken(<<"x">>)>>]>>
    /\ call.arg = BoldNestExample
         => Tokens = <<[type |-> "bold", content |->
                         <<TextToken(<<"a", " ">>),
                           [type |-> "italic", content |-> <<TextToken(<<"b">>)>>],
                           TextToken(<<" ", "c">>)>>]>>

\* a text in which three marker lengths start a pair at offset 0 was lexed
\* to a boldItalic token
C5_Witness ==
  /\ Done
  /\ Cardinality({p \in StyledPairs(call.arg) : p.startIndex = 0}) = 3
  /\ Tokens[1].type = "boldItalic"

\* the characters the tokens carry as literal text
RECURSIVE LiteralText(_)
LiteralText(tokens) ==
  IF Len(tokens) = 0 THEN <<>>
  ELSE (CASE Head(tokens).type \in {"text", "code"} -> Head(tokens).content
          [] Head(tokens).type = "image" -> Head(tokens).alt \o Head(tokens).src
          [] Head(tokens).type = "link" ->
               LiteralText(Head(tokens).content) \o Head(tokens).href
          [] OTHER -> LiteralText(Head(tokens).content))
       \o LiteralText(Tail(tokens))

Count(s, c) == Cardinality({p \in 1..Len(s) : s[p] = c})

RECURSIVE Unescape(_)
Unescape(s) ==
  IF Len(s) = 0 THEN <<>>
  ELSE IF s[1] = "\\" /\ Len(s) >= 2 THEN <<s[2]>> \o Unescape(SliceFrom(s, 2))
  ELSE <<s[1]>> \o Unescape(Tail(s))

\* every markup character of s is escaped: s is made of letters and of
\* backslash-character pairs
RECURSIVE AllEscaped(_)
AllEscaped(s) ==
  IF Len(s) = 0 THEN TRUE
  ELSE IF s[1] = "\\" THEN Len(s) >= 2 /\ AllEscaped(SliceFrom(s, 2))
  ELSE s[1] \in Letters /\ AllEscaped(Tail(s))

\* C7: a backslash followed by a character makes that character literal: it
\* opens or closes no span and is emitted, without its backslash, in a text
\* token at its place; escaped asterisks around "not italic" give the single
\* text token "*not italic*".
C7_BackslashEscapes ==
  Done /\ AllEscaped(call.arg) /\ Len(call.arg) > 0
    => Tokens = <<TextToken(Unescape(call.arg))>>

\* the leading-whitespace width of a line
Indent(line) == RunEnd(line, 0, {" "})

\* C8: consecutive list-item lines form one list token whose items nest by
\* indentation; the four lines "- a", "  - b", "  - c", "- d" give one
\* unordered list with two top-level items, the first holding b and c.
C8_ListNesting ==
  Done /\ result.status = "ok" /\ call.arg = ListExample =>
    /\ Len(Tokens) = 1
    /\ Tokens[1].megaType = "list"
    /\ Len(Tokens[1].items) =
         Cardinality({k \in 1..Len(SplitLines(call.arg)) :
                        Indent(SplitLines(call.arg)[k]) = 0})
    /\ Len(ItemChildren(Tokens[1].items[1])) = 2

\* the HTML the renderer gives for the markdown of the last call
Rendered == ConvertTokensToHTML(Tokenizer(call.arg).tokens, config)

ReturnedHTML ==
  /\ Done
  /\ call.op = "returnHTML"
  /\ Tokenizer(call.arg).status = "ok"

\* C9: once setDOMPurify was given an instance that exposes a sanitize method
\* and enableSanitization is true, a returnHTML result is the output of that
\* sanitizer for the rendered HTML; with enableSanitization false, or with no
\* instance installed, it is the rendered HTML and sanitize is not called.
C9_SanitizerUsed ==
  ReturnedHTML =>
    /\ given.sanitize = "returns" /\ config.enableSanitization
         => result.value = SanitizeOutput(given, Rendered) /\ result.sanitizeCalls = 1
    /\ ~config.enableSanitization \/ given = NotGiven
         => result.value = Rendered /\ result.sanitizeCalls = 0

-----------------------------------------------------------------------------
(* Properties of the settings and of setDOMPurify (Spec).                  *)

\* one step of the library seen from a defined setting k: setSettings(k, v)
\* stores v, every other call leaves config[k] alone, and getSettings(k)
\* returns the stored value
SettingStep(k) ==
  /\ call'.op = "setSettings" /\ call'.arg[1] = k => config'[k] = call'.arg[2]
  /\ call'.op # "setSettings" \/ call'.arg[1] # k => config'[k] = config[k]
  /\ call'.op = "getSettings" /\ call'.arg[1] = k
       => result' = [status |-> "return", value |-> BooleanValue(config'[k])]

\* C11: after setSettings(k, v) for an existing setting k, getSettings(k)
\* returns v until the next setSettings(k, ...); all other settings keep
\* their values, and the conversion functions never modify the configuration.
C11_SettingsFrame == [][\A k \in SettingNames : SettingStep(k)]_vars

\* getSettings("enableSanitization") returned false, the value an earlier
\* setSettings stored over the default, with a conversion in between or not
C11_Witness ==
  /\ Done /\ call.op = "getSettings" /\ call.arg[1] = "enableSanitization"
  /\ result.value = BooleanValue(FALSE)
  /\ config.useCustomTheme = DefaultConfig.useCustomTheme

\* one step of the library seen from a name that is not a defined setting
UnknownSettingStep(name) ==
  /\ call'.op = "getSettings" /\ call'.arg[1] = name
       => result' = [status |-> "return", value |-> Undefined]
  /\ call'.op = "setSettings" /\ call'.arg[1] = name => config' = config

\* C12: for any name that is not one of the defined settings, getSettings
\* returns undefined and setSettings changes nothing; the set of setting keys
\* is the same in every reachable state.
C12_UnknownSettingInert ==
  [][/\ \A name \in ApiSettings \ SettingNames : UnknownSettingStep(name)
     /\ DOMAIN config' = SettingNames]_vars

\* C13: setDOMPurify throws, with the message "Type of instance is not
\* function", when its argument is not a function: a string, null, undefined.
C13_SetDOMPurifyThrows ==
  Done /\ call.op = "setDOMPurify" /\ ~Accepts(given)
    => result = SetDOMPurifyTry(given) /\ result.status = "throw"

-----------------------------------------------------------------------------
(* Properties of the renderer (SpecRender).                                *)

SpecialChars == {"&", "<", ">", "\"", "'"}
EntityNames == {"&amp;", "&lt;", "&gt;", "&quot;", "&#39;"}

\* the entity that stands for a character in HTML
Entity(c) ==
  CASE c = "&" -> "&amp;" [] c = "<" -> "&lt;" [] c = ">" -> "&gt;"
    [] c = "\"" -> "&quot;" [] c = "'" -> "&#39;" [] OTHER -> c

\* the character an atom of the output stands for
Decoded(atom) ==
  CASE atom = "&amp;" -> "&" [] atom = "&lt;" -> "<" [] atom = "&gt;" -> ">"
    [] atom = "&quot;" -> "\"" [] atom = "&#39;" -> "'" [] OTHER -> atom

\* an atom of the output that is markup written by the renderer: neither one
\* character nor one entity
IsMarkup(atom) == Len(atom) > 1 /\ atom \notin EntityNames

\* the markup atoms that end just inside the opening quote of an attribute
AttributeOpeners == {"<a href=\"", "<img src=\"", "\" alt=\"", IconSrcOpen}

\* position p of html lies inside an attribute value: the nearest markup
\* before it opened one
InAttribute(html, p) ==
  LET before == {q \in 1..(p - 1) : IsMarkup(html[q])}
  IN  /\ before # {}
      /\ html[CHOOSE q \in before : \A r \in before : r <= q] \in AttributeOpeners

\* the characters and entities of html that are element content
ContentPositions(html) ==
  {p \in 1..Len(html) : ~IsMarkup(html[p]) /\ ~InAttribute(html, p)}

RECURSIVE Ascending(_)
Ascending(positions) ==
  IF positions = {} THEN <<>>
  ELSE LET least == CHOOSE p \in positions : \A q \in positions : p <= q
       IN  <<least>> \o Ascending(positions \ {least})

ContentAtoms(html) ==
  LET order == Ascending(ContentPositions(html))
  IN  [k \in 1..Len(order) |-> html[order[k]]]

\* the leaf text of the one block token handed to the renderer, in output order
InlineLeafText(token) ==
  CASE token.type \in {"text", "code"} -> token.content
    [] token.type = "link" -> token.content[1].content
    [] OTHER -> <<>>

LeafText(token, cfg) ==
  IF token.megaType = "codeBlock"
  THEN (IF cfg.LanguageNameInCode THEN TokenLanguage(token) ELSE <<>>) \o token.content
  ELSE InlineLeafText(token.content[1])

Converted == Done /\ call.op = "convertTokensToHTML"

\* the block token holds leaf text directly: a code block, or a paragraph of
\* one text, code, link or image token
HoldsLeaf(token) ==
  \/ token.megaType = "codeBlock"
  \/ token.megaType = "paragraph" /\ token.content[1].type \in AtomicTypes \cup {"text"}

\* C14: the renderer HTML-escapes all leaf text: the element content of the
\* output is, character by character, the text of the text token, inline code
\* token, code-block language label and code-block content with each of
\* & < > " ' replaced by its entity, so none of them reaches the output as it
\* is.
C14_LeafTextEscaped ==
  Converted =>
    /\ HoldsLeaf(call.arg[1]) =>
         ContentAtoms(result.value) =
           [k \in 1..Len(LeafText(call.arg[1], config)) |->
              Entity(LeafText(call.arg[1], config)[k])]
    /\ \A p \in ContentPositions(result.value) : result.value[p] \notin SpecialChars

\* a code block whose language label is < and whose content is & was rendered
\* with the label shown, and the output carries the two entities
C14_Witness ==
  /\ Converted
  /\ call.arg[1].megaType = "codeBlock"
  /\ call.arg[1].language = <<"<">> /\ call.arg[1].content = <<"&">>
  /\ config.LanguageNameInCode /\ config.IconInCode
  /\ ContentAtoms(result.value) = <<"&lt;", "&amp;">>

\* the positions of html that are inside an attribute value
AttributePositions(html) ==
  {p \in 1..Len(html) : ~IsMarkup(html[p]) /\ InAttribute(html, p)}

\* C15: the renderer escapes every token-supplied string it places inside an
\* attribute (link href, image src and alt, the code-block language in the
\* icon URL): no quote character of a token appears as it is inside an
\* attribute value.
C15_AttributesEscaped ==
  Converted =>
    \A p \in AttributePositions(result.value) : result.value[p] \notin {"\"", "'"}

\* the same for the link and image tokens alone, where it holds
AttributesEscapedInline ==
  Converted /\ call.arg[1].megaType = "paragraph" =>
    \A p \in AttributePositions(result.value) : result.value[p] \notin {"\"", "'"}

\* the value of the attributes of html, entities read back as characters
AttributeValue(html) ==
  LET order == Ascending(AttributePositions(html))
  IN  [k \in 1..Len(order) |-> Decoded(html[order[k]])]

StartsWith(str, prefix) ==
  Len(str) >= Len(prefix) /\ SubSeq(str, 1, Len(prefix)) = prefix

Http == <<"h", "t", "t", "p", ":", "/", "/">>
Https == <<"h", "t", "t", "p", "s", ":", "/", "/">>
HasScheme(href) == StartsWith(href, Http) \/ StartsWith(href, Https)

\* the renderer was given a paragraph holding one link with a non-empty href
ConvertedLink ==
  /\ Converted
  /\ call.arg[1].megaType = "paragraph"
  /\ call.arg[1].content[1].type = "link"
  /\ Len(call.arg[1].content[1].href) > 0

GivenHref == call.arg[1].content[1].href

\* C16: for every link token with a non-empty href the emitted href starts
\* with http:// or https://; an href that already starts with one of them is
\* emitted unchanged, otherwise https:// is prepended exactly once.
C16_HttpsPrefix ==
  ConvertedLink =>
    /\ HasScheme(AttributeValue(result.value))
    /\ AttributeValue(result.value) =
         IF HasScheme(GivenHref) THEN GivenHref ELSE Https \o GivenHref

\* the link to a.b was emitted as https://a.b
C16_Witness ==
  /\ ConvertedLink
  /\ GivenHref = <<"a", ".", "b">>
  /\ AttributeValue(result.value) = Https \o <<"a", ".", "b">>

-----------------------------------------------------------------------------
(* Properties of the functions that write to an element (SpecDOM).         *)

\* what returnHTML gives, in the state before the step, for the markdown of
\* the call that is the step
SameReturnHTML == ReturnHTMLOf(call'.arg, config, DOMPurify)

\* the step is a call of op for which returnHTML returns
ElementCall(op) == call'.op = op /\ SameReturnHTML.status = "return"

\* the conversion of the call that is the step is thrown out of its try block
ConversionThrows ==
  /\ call'.op \in {"insertIntoElement", "appendIntoElement"}
  /\ ReturnHTMLBody(call'.arg, config, DOMPurify).status = "throw"

StructurallyEqual(n1, n2) == n1.kind = n2.kind /\ n1.shape = n2.shape

\* the element's children after a replaceIntoElement met parsed, the node list
\* of the new HTML, coming from the children before
Merged(before, after, parsed) ==
  /\ Len(after) = Len(parsed)
  /\ \A i \in 1..Len(parsed) :
       /\ StructurallyEqual(after[i], parsed[i])
       /\ after[i] = IF i <= Len(before) /\ StructurallyEqual(before[i], parsed[i])
                     THEN before[i] ELSE parsed[i]

\* C18: after replaceIntoElement succeeds the element's child list has the
\* length of, and is position by position structurally equal to, the node
\* list parsed from the (optionally sanitized) rendered HTML; an existing
\* child structurally equal to the new node at its index is kept as the same
\* node, every other position holds the new node, and existing children
\* beyond the new length are removed.
C18_ReplaceMerges ==
  [][call'.op = "replaceIntoElement"
       /\ ReturnHTMLBody(call'.arg, config, DOMPurify).status = "return"
     => \A parsed \in {ParseHTML(ReturnHTMLBody(call'.arg, config, DOMPurify).value,
                                  calls')} :
          Merged(element, element', parsed)]_vars

\* replaceIntoElement ran on an element filled by an earlier call and kept
\* one of its nodes next to a node it put in
C18_Witness ==
  /\ Done /\ call.op = "replaceIntoElement" /\ calls = 2
  /\ \E i, j \in 1..Len(element) : element[i].born = 1 /\ element[j].born = 2

-----------------------------------------------------------------------------
(* Properties of the tokenizer and of returnHTML inside the library (Spec). *)

SanitizerThrew ==
  /\ Done /\ call.op = "returnHTML" /\ Len(call.arg) > 0
  /\ Tokenizer(call.arg).status = "ok"
  /\ config.enableSanitization /\ DOMPurify.sanitize = "throws"

\* C20: when the installed sanitizer throws during returnHTML, returnHTML
\* still returns a non-empty HTML string for non-empty markdown.
C20_SanitizerFailureKeepsHTML ==
  SanitizerThrew => result.status = "return" /\ Len(result.value) > 0

\* ---------------------------------------------------------------------------
\* Theme classes
\* ---------------------------------------------------------------------------

\* the class attribute the documentation describes: ct-parsed and the names
\* of the element
CtParsed(names) == " class=\"ct-parsed " \o names \o "\""

\* the elements the renderer opens with one atom, and the class names the
\* documentation gives them
ThemedElements ==
  { <<"p", "paragraph">>, <<"strong", "bold">>, <<"em", "italic">>,
    <<"del", "strikethrough">>, <<"sub", "subscript">>, <<"sup", "superscript">>,
    <<"mark", "highlight">>, <<"code", "code">>, <<"code", "codeblock-code">>,
    <<"pre", "codeblock-pre">>, <<"div", "codeblock-lang-label">>,
    <<"div", "table-container">>, <<"table", "table">>,
    <<"th", "table-header-cell">>, <<"tr", "table-row">>, <<"td", "table-cell">>,
    <<"ul", "list">>, <<"ul", "list nested-list">>, <<"ol", "olist">>,
    <<"ol", "olist nested-list">>, <<"li", "list-item">>, <<"ul", "tasklist">>,
    <<"li", "tasklist-item">>, <<"blockquote", "blockquote">>, <<"hr", "hr">>,
    <<"h1", "heading heading-1">>, <<"h2", "heading heading-2">>,
    <<"h3", "heading heading-3">>, <<"h4", "heading heading-4">>,
    <<"h5", "heading heading-5">>, <<"h6", "heading heading-6">> }

\* markup that completes the opening of an element and carries ct-parsed
ClassedOpeners ==
  {"<" \o e[1] \o CtParsed(e[2]) \o ">" : e \in ThemedElements}
  \cup {"\"" \o CtParsed("link") \o ">", "\"" \o CtParsed("image") \o " />",
        "-original.svg" \o IconTail(TRUE),
        IconSrcOpen \o "code/code-plain.svg" \o IconTail(TRUE)}

\* markup that completes the opening of an element and carries no class
BareOpeners ==
  {"<" \o e[1] \o ">" : e \in ThemedElements}
  \cup {"\">", "\" />",
        "-original.svg" \o IconTail(FALSE),
        IconSrcOpen \o "code/code-plain.svg" \o IconTail(FALSE),
        "<thead><tr>", "<tbody>",
        "<input type=\"checkbox\" disabled /> ",
        "<input type=\"checkbox\" disabled checked /> "}

\* markup that opens no element: the start of a tag whose class comes in a
\* later atom, and closing tags
OtherMarkup ==
  AttributeOpeners
  \cup {"</" \o e[1] \o ">" : e \in ThemedElements \ {<<"hr", "hr">>}}
  \cup {"</em></strong>", "</a>", "</code></pre>", "</tr></thead>", "</tbody>",
        "</table></div>"}

MarkupAtoms(html) == {html[p] : p \in {q \in 1..Len(html) : IsMarkup(html[q])}}

\* C21: when useCustomTheme is enabled every emitted HTML element carries the
\* class ct-parsed together with its element-specific class, and when it is
\* disabled no element carries ct-parsed.
C21_ThemeClasses ==
  Converted =>
    /\ MarkupAtoms(result.value) \subseteq ClassedOpeners \cup BareOpeners \cup OtherMarkup
    /\ config.useCustomTheme => MarkupAtoms(result.value) \cap BareOpeners = {}
    /\ ~config.useCustomTheme => MarkupAtoms(result.value) \cap ClassedOpeners = {}

\* the part of it that holds: the renderer writes only the markup listed
\* above, nothing classed with the theme off, and with the theme on the only
\* elements without a class are the table sections and the task checkbox
ThemeClassesButSections ==
  Converted =>
    /\ MarkupAtoms(result.value) \subseteq ClassedOpeners \cup BareOpeners \cup OtherMarkup
    /\ config.useCustomTheme =>
         MarkupAtoms(result.value) \cap BareOpeners \subseteq
           {"<thead><tr>", "<tbody>", "<input type=\"checkbox\" disabled /> ",
            "<input type=\"checkbox\" disabled checked /> "}
    /\ ~config.useCustomTheme => MarkupAtoms(result.value) \cap ClassedOpeners = {}

\* ---------------------------------------------------------------------------
\* The inline scan step
\* ---------------------------------------------------------------------------

\* the atomic match is the one consumed: it exists and starts no later than
\* the styled pair
AtomicWins(a, p) == a # NoMatch /\ (p = NoMatch \/ a.index <= p.startIndex)

\* the scan step on text, knowing the earliest atomic match a and the earliest
\* styled pair p, produced tokens: the text before the earlier of the two,
\* then its token, then the tokens of the text after it
StepsFrom(text, a, p, tokens) ==
  IF a = NoMatch /\ p = NoMatch THEN tokens = <<TextToken(text)>>
  ELSE LET start == IF AtomicWins(a, p) THEN a.index ELSE p.startIndex
           end == IF AtomicWins(a, p) THEN a.index + a.len
                  ELSE p.endIndex + Len(p.marker)
           k == IF start > 0 THEN 2 ELSE 1
       IN  /\ start > 0 => tokens[1] = TextToken(SubSeq(text, 1, start))
           /\ Len(tokens) >= k
           /\ tokens[k].type = IF AtomicWins(a, p) THEN a.type ELSE p.type
           /\ SubSeq(tokens, k + 1, Len(tokens)) =
                TokenizeInline(SubSeq(text, end + 1, Len(text)))

\* C22: at each step of the inline scan the earliest atomic match (image,
\* link, code) and the earliest styled marker pair are compared by start
\* offset and the earlier one is consumed, the atomic one at an equal offset;
\* text before the consumed match is emitted first as a text token, so the
\* tokens come in source order.
C22_EarliestConsumed ==
  Done /\ Len(call.arg) > 0 =>
    \A a \in {FindEarliestMatch(call.arg)}, p \in {FindEarliestStyledMarker(call.arg)} :
      StepsFrom(call.arg, a, p, Tokens)

\* a text with text, then a styled pair, then an atomic match after it was
\* lexed: text token, styled token, atomic token in that order
C22_Witness ==
  /\ Done
  /\ FindEarliestMatch(call.arg) # NoMatch
  /\ FindEarliestStyledMarker(call.arg) # NoMatch
  /\ 0 < FindEarliestStyledMarker(call.arg).startIndex
  /\ FindEarliestStyledMarker(call.arg).startIndex < FindEarliestMatch(call.arg).index
  /\ Len(Tokens) = 3
  /\ Tokens[1].type = "text" /\ Tokens[2].type \in StyledTypes
  /\ Tokens[3].type \in AtomicTypes

\* ---------------------------------------------------------------------------
\* Blockquote runs
\* ---------------------------------------------------------------------------

\* a line of a quote run: it starts with ">" or is blank
QuoteRunLine(line) == (Len(line) > 0 /\ line[1] = ">") \/ Len(Trim(line)) = 0

\* how many lines the maximal run at the start of lines has
RECURSIVE QuoteRun(_)
QuoteRun(lines) ==
  IF Len(lines) > 0 /\ QuoteRunLine(lines[1]) THEN 1 + QuoteRun(Tail(lines)) ELSE 0

\* a line without one leading ">" and at most one space (any whitespace
\* character) after it
Unquoted(line) ==
  IF Len(line) >= 2 /\ line[1] = ">" /\ line[2] \in SpaceChars THEN SubSeq(line, 3, Len(line))
  ELSE IF Len(line) >= 1 /\ line[1] = ">" THEN Tail(line)
  ELSE line

\* the text of the run at the start of lines, unquoted, and the text after it
RunContent(lines) == JoinLines([k \in 1..QuoteRun(lines) |-> Unquoted(lines[k])])
AfterRun(lines) == JoinLines(SubSeq(lines, QuoteRun(lines) + 1, Len(lines)))

\* the input begins with a line that starts with ">"
BeginsWithQuote == Len(call.arg) > 0 /\ call.arg[1] = ">"

\* the call returned one blockquote token for the run, holding the tokens of
\* content, followed by the tokens of rest
OneBlockquoteThen(content, rest) ==
  /\ result.status = "ok"
  /\ content.status = "ok" /\ rest.status = "ok"
  /\ Tokens = <<[megaType |-> "blockquote", content |-> content.tokens]>> \o rest.tokens

\* C23: a maximal run of consecutive lines that each start with ">" or are
\* blank, beginning at a line that starts with ">", produces exactly one
\* blockquote token whose content is the block parse of the run with one
\* leading ">" and at most one following space removed from each line, and
\* segmentation resumes after the run.
C23_QuoteRun ==
  Done /\ BeginsWithQuote =>
    \A lines \in {SplitLines(call.arg)} :
      OneBlockquoteThen(Tokenizer(RunContent(lines)), Tokenizer(AfterRun(lines)))

\* the part of it that holds: whenever the call returns, it returned that
\* blockquote token and the tokens of the text after the run
QuoteRunWhenReturned ==
  Done /\ BeginsWithQuote /\ result.status = "ok" =>
    \A lines \in {SplitLines(call.arg)} :
      OneBlockquoteThen(Tokenizer(RunContent(lines)), Tokenizer(AfterRun(lines)))

\* ---------------------------------------------------------------------------
\* The language label of a code block
\* ---------------------------------------------------------------------------

ConvertedCodeBlock == Converted /\ call.arg[1].megaType = "codeBlock"

Escaped(str) == [k \in 1..Len(str) |-> Entity(str[k])]

\* the markup that begins an icon: the start of the language icon, or the
\* whole generic icon
IconMarkup ==
  {IconSrcOpen} \cup {IconSrcOpen \o "code/code-plain.svg" \o IconTail(theme) : theme \in BOOLEAN}

LabelMarkup == {"<div>", "<div" \o CtParsed("codeblock-lang-label") \o ">"}

\* what a code block with this language and content shows under cfg: the
\* name as element content before the code, the icon, the label around them
ShowsLabel(html, lang, content, name, icon) ==
  /\ ContentAtoms(html) = (IF name THEN Escaped(lang) ELSE <<>>) \o Escaped(content)
  /\ (MarkupAtoms(html) \cap IconMarkup # {}) <=> icon
  /\ (MarkupAtoms(html) \cap LabelMarkup # {}) <=> (name \/ icon)
  /\ ~name => AttributePositions(html) = {}

KnownMegaTypes ==
  {"heading", "paragraph", "blockquote", "tasklist", "list", "table",
   "horizontalRule", "codeBlock"}

\* an entry of the token array that is null, not an object, or of an unknown
\* megaType
NotAToken(entry) ==
  \/ entry.js \notin {"object", "array"}
  \/ NameOf(Prop(entry, "megaType")) \notin KnownMegaTypes

\* what each entry of the array contributes to the output: nothing for an
\* entry that is not a token, its own rendering otherwise
Contributions(tokens, cfg) ==
  [k \in 1..Len(tokens.elems) |->
     IF NotAToken(tokens.elems[k]) THEN <<>>
     ELSE ConvertValue(JsArray(<<tokens.elems[k]>>), cfg).value]

\* C25: convertTokensToHTML returns a string and never throws, whatever it is
\* given: the empty string for null, undefined and any value that is not an
\* array; null, non-object and unknown-megaType entries of the array
\* contribute the empty string; tokens whose fields (content, level, items,
\* rows, href) are missing, null or of the wrong type render without an
\* exception.
C25_NeverThrows ==
  Done =>
    /\ result.status = "return"
    /\ call.arg.js # "array" => result.value = <<>>
    /\ call.arg.js = "array" =>
         result.value = JoinHTML(Contributions(call.arg, config), <<"\n">>)

\* the entry is a link token
IsLink(entry) == NameOf(Prop(entry, "type")) = "link"

\* the entry is a block whose branch reads no items, rows, header or
\* language, and whose inline content holds no link
ReadsOnlyContent(entry) ==
  /\ NameOf(Prop(entry, "megaType")) \in {"heading", "paragraph", "horizontalRule"}
  /\ Prop(entry, "content").js = "array" =>
       \A k \in 1..Len(Prop(entry, "content").elems) :
         ~IsLink(Prop(entry, "content").elems[k])

\* the part of it that holds: no exception and the stated output for every
\* argument that is not an array, and for arrays of entries that are not
\* tokens, headings, paragraphs and rules without links, whatever their
\* content and level are
ContentAndLevelNeverThrow ==
  Done /\ (call.arg.js = "array" =>
             \A k \in 1..Len(call.arg.elems) :
               NotAToken(call.arg.elems[k]) \/ ReadsOnlyContent(call.arg.elems[k]))
    => /\ result.status = "return"
       /\ call.arg.js # "array" => result.value = <<>>
       /\ call.arg.js = "array" =>
            result.value = JoinHTML(Contributions(call.arg, config), <<"\n">>)

\* ---------------------------------------------------------------------------
\* Progress of the main loop
\* ---------------------------------------------------------------------------

\* the end index the sub-parser dispatched at line i (0-based) returns
SubParserEnd(lines, i) ==
  CASE StartsBlockquote(Trim(lines[i + 1])) -> BlockquoteEnd(lines, i)
    [] StartsOrderedItem(Trim(lines[i + 1])) -> ConsumeOrderedList(lines, i).endIndex
    [] StartsUnorderedItem(Trim(lines[i + 1])) -> ConsumeUnorderedList(lines, i).endIndex
    [] OTHER -> i + 1

\* the lines at which the main loop dispatches a sub-parser
Dispatches(lines) ==
  {i \in 0..(Len(lines) - 1) :
     /\ ~IsHorizontalRule(Trim(lines[i + 1]))
     /\ \/ StartsBlockquote(Trim(lines[i + 1]))
        \/ StartsOrderedItem(Trim(lines[i + 1]))
        \/ StartsUnorderedItem(Trim(lines[i + 1]))}

\* C26: a sub-parser dispatched at line i accepts at least line i and returns
\* an end index greater than i, so the line index of the main loop strictly
\* increases and the loop terminates.
C26_LoopAdvances ==
  Done =>
    /\ \A lines \in {SplitLines(call.arg)} :
         \A i \in Dispatches(lines) : SubParserEnd(lines, i) > i
    /\ result.status # "hang"

\* the part of it that holds: the blockquote sub-parser always accepts the
\* line it is dispatched at
BlockquoteAdvances ==
  Done =>
    \A lines \in {SplitLines(call.arg)} :
      \A i \in Dispatches(lines) :
        StartsBlockquote(Trim(lines[i + 1])) => SubParserEnd(lines, i) > i

\* ---------------------------------------------------------------------------
\* Blockquote markers
\* ---------------------------------------------------------------------------

\* the lines consumeBlockquote collects as quote lines when dispatched at
\* line i: those of its run that start with ">" after trimming
QuoteLines(lines, i) ==
  {k \in (i + 1)..BlockquoteEnd(lines, i) : StartsBlockquote(Trim(lines[k]))}

\* C27: every line that consumeBlockquote collects as a quote line, with or
\* without whitespace before its ">", has one ">" removed before the nested
\* parse, so each nesting level is shorter than the one before and the
\* nesting is finite.
C27_MarkerRemoved ==
  Done =>
    /\ \A lines \in {SplitLines(call.arg)} :
         \A i \in Dispatches(lines) :
           StartsBlockquote(Trim(lines[i + 1])) =>
             \A k \in QuoteLines(lines, i) :
               Len(StripQuoteMarker(lines[k])) < Len(lines[k])
    /\ result.status # "RangeError"

\* the part of it that holds: a quote line whose first character is ">"
\* loses it
MarkerRemovedAtLineStart ==
  Done =>
    \A lines \in {SplitLines(call.arg)} :
      \A i \in Dispatches(lines) :
        StartsBlockquote(Trim(lines[i + 1])) =>
          \A k \in QuoteLines(lines, i) :
            lines[k][1] = ">" => Len(StripQuoteMarker(lines[k])) < Len(lines[k])

\* ---------------------------------------------------------------------------
\* The installed sanitizer
\* ---------------------------------------------------------------------------

\* the step is a call of setDOMPurify with a value that is accepted (a
\* function); every other value is rejected
AcceptingStep == call'.op = "setDOMPurify" /\ given'.typeof = "function"

\* the step is a returnHTML call with sanitization enabled, on markdown the
\* tokenizer accepts
SanitizingStep ==
  /\ call'.op = "returnHTML"
  /\ config.enableSanitization
  /\ Tokenizer(call'.arg).status = "ok"

\* the conversion used the sanitizer purify on the rendered html, or none
\* when purify is null
UsedSanitizer(purify, html, outcome) ==
  /\ purify = Null => outcome.value = html /\ outcome.sanitizeCalls = 0
  /\ purify # Null /\ purify.sanitize = "returns" =>
       outcome.value = SanitizeOutput(purify, html) /\ outcome.sanitizeCalls = 1
  /\ purify # Null /\ purify.sanitize = "throws" => outcome.sanitizeCalls = 1

\* C28: a rejected setDOMPurify call leaves the previously installed
\* sanitizer in place: the installed sanitizer changes only in a call that is
\* accepted, to the instance given, so conversions after a rejected call use
\* the last accepted instance, and none if no call was ever accepted.
C28_RejectedKeepsInstalled ==
  [][ /\ AcceptingStep => DOMPurify' = given'
      /\ ~AcceptingStep => DOMPurify' = DOMPurify
      /\ SanitizingStep =>
           \A html \in {ConvertTokensToHTML(Tokenizer(call'.arg).tokens, config)} :
             UsedSanitizer(DOMPurify, html, result')
    ]_vars

\* returnHTML ran after a rejected setDOMPurify call that followed an accepted
\* one, and its result is the output of the accepted instance
C28_Witness ==
  /\ ReturnedHTML
  /\ given.typeof = "object" /\ given.sanitize = "returns"
  /\ DOMPurify # Null /\ DOMPurify.name = "purifyFn"
  /\ config.enableSanitization
  /\ result.value = SanitizeOutput(DOMPurify, Rendered)

\* ---------------------------------------------------------------------------
\* A failed conversion and the element
\* ---------------------------------------------------------------------------

\* C29: when the conversion fails inside insertIntoElement or
\* appendIntoElement, no exception reaches the caller and the element's
\* content is exactly what it was before the call.
C29_FailureKeepsElement ==
  [][ConversionThrows => result'.status = "return" /\ element' = element]_vars

\* insertIntoElement was called with markdown whose conversion throws, on an
\* element that already had content, and returned with the content in place
C29_Witness ==
  /\ Done
  /\ call.op = "insertIntoElement"
  /\ ReturnHTMLBody(call.arg, config, DOMPurify).status = "throw"
  /\ result.status = "return"
  /\ Len(element) > 0

\* ---------------------------------------------------------------------------
\* List items
\* ---------------------------------------------------------------------------

\* the ListItems of a list at every depth
RECURSIVE ItemCount(_)
ItemCount(items) ==
  IF Len(items) = 0 THEN 0
  ELSE 1 + (IF "items" \in DOMAIN Head(items) THEN ItemCount(Head(items).items) ELSE 0)
         + ItemCount(Tail(items))

\* the markup that opens a list item
ItemOpeners ==
  {"<li>", "<li" \o CtParsed("list-item") \o ">", "<li" \o CtParsed("tasklist-item") \o ">"}

ItemsRendered(html) == Cardinality({p \in 1..Len(html) : html[p] \in ItemOpeners})

ConvertedList == Converted /\ call.arg[1].megaType \in {"list", "tasklist"}

\* C30: rendering a list emits one <li> element for every ListItem at every
\* depth, the nested children of the items of a list that contains task items
\* included.
C30_OneLiPerItem ==
  ConvertedList => ItemsRendered(result.value) = ItemCount(call.arg[1].items)

\* the part of it that holds: one <li> per item at every depth for ordered
\* lists and for lists without task items
OneLiPerItemWithoutTasks ==
  ConvertedList /\ (("ordered" \in DOMAIN call.arg[1] /\ call.arg[1].ordered)
                    \/ ~HasCheckedItems(call.arg[1].items))
    => ItemsRendered(result.value) = ItemCount(call.arg[1].items)

====
